---- MODULE Spec2Model ----
(***************************************************************************)
(* A model of the "remeber" life-manager application: the browser data     *)
(* service (ApiService), its two storage backends (the localStorage JSON   *)
(* blob and the spreadsheet-backed Apps Script endpoint, in the two        *)
(* versions the repository ships) and the month summary of ExpenseView.    *)
(*                                                                         *)
(* Representation of JavaScript values:                                    *)
(*   - an object is a record; a key the object does not have is absent     *)
(*     from the record's DOMAIN; a key holding undefined holds Undefined;  *)
(*   - a nullable item (localStorage.getItem, e.postData) is a sequence    *)
(*     of length 0 (null) or 1;                                            *)
(*   - a string whose characters the code inspects (Transaction.date,      *)
(*     selectedMonth) is a sequence of one-character strings;              *)
(*   - a spreadsheet is a sequence of rows, row 1 being the header row,    *)
(*     and a cell holds the value that was written to it.                  *)
(***************************************************************************)
EXTENDS Integers, Sequences, FiniteSets, TLC

VARIABLES
    gasUrl,           \* localStorage[STORAGE_KEYS.GAS_URL]
    localData,        \* localStorage[STORAGE_KEYS.LOCAL_DATA], the JSON blob
    categoriesCache,  \* localStorage['lifemanager_categories_cache']
    deployed,         \* which of the repository's two backend scripts is deployed
    doc,              \* the spreadsheet behind the remote endpoint
    call,             \* the last data-service call and how its promise settled
    selectedMonth,    \* ExpenseView state: the month shown, [y, m]
    transactions,     \* App state data.transactions, the ExpenseView prop
    lock,             \* LockService.getScriptLock(): the execution holding it
    executions,       \* the executions of handleRequest on the endpoint
    dataTodos,        \* App state data.todos, the TodoView prop
    dataCategories,   \* App state data.categories
    activeTab,        \* App state: the view shown
    initialExpenseNote, \* App state: the note handed to ExpenseView
    form,             \* ExpenseView state: amount, note, currency
    items,            \* TodoView state: the todos it shows
    modalOpen,        \* TodoView state
    processingTodo,   \* TodoView state
    activeId,         \* TodoView state: the todo being dragged
    task,             \* the view handler that is running, between its awaits
    refreshes         \* calls of App.refreshData that have not completed

storeVars == <<gasUrl, localData, categoriesCache, deployed, doc, call>>
viewVars == <<selectedMonth, transactions>>
lockVars == <<lock, executions>>
appVars == <<dataTodos, dataCategories, activeTab, initialExpenseNote, form, items,
             modalOpen, processingTodo, activeId, task, refreshes>>

vars == <<storeVars, viewVars, lockVars, appVars>>

-----------------------------------------------------------------------------
(* Bounds of the model *)

MaxRecords == 3   \* most records (transactions and todos together) a store holds

-----------------------------------------------------------------------------
(* JavaScript values *)

Undefined == "undefined"
EmptyString == ""
Null == <<>>
Some(x) == <<x>>

\* if (url): null and '' are falsy
Truthy(item) == item # Null /\ item[1] # EmptyString

Range(s) == {s[i] : i \in 1..Len(s)}

\* o.f for a key that may be absent
Field(o, f) == IF f \in DOMAIN o THEN o[f] ELSE Undefined

\* Array.prototype.reverse
Reverse(s) == [i \in 1..Len(s) |-> s[Len(s) + 1 - i]]

\* Array.prototype.findIndex, 1-based; 0 when there is none (-1 in the code)
FindIndex(s, test(_)) ==
    IF \E i \in 1..Len(s) : test(s[i])
    THEN CHOOSE i \in 1..Len(s) : test(s[i]) /\ \A j \in 1..(i - 1) : ~test(s[j])
    ELSE 0

-----------------------------------------------------------------------------
(* The record model (types.ts is not part of the sources; the fields are    *)
(* those the data service, the views and the backend read and write)       *)

TxFields == {"id", "date", "type", "categoryId", "amount", "note"}
TodoFields == {"id", "text", "isCompleted", "createdAt", "targetDate"}

INCOME == "income"
EXPENSE == "expense"

\* String(n).padStart(2, '0') for 0 <= n <= 99
Digit(n) == CASE n = 0 -> "0" [] n = 1 -> "1" [] n = 2 -> "2" [] n = 3 -> "3"
              [] n = 4 -> "4" [] n = 5 -> "5" [] n = 6 -> "6" [] n = 7 -> "7"
              [] n = 8 -> "8" [] n = 9 -> "9"
PadStart2(n) == <<Digit(n \div 10), Digit(n % 10)>>

\* String(y) for a four-digit year
YearString(y) ==
    <<Digit(y \div 1000), Digit((y \div 100) % 10), Digit((y \div 10) % 10), Digit(y % 10)>>

\* the value of <input type="date">: YYYY-MM-DD
DateString(y, m, d) == YearString(y) \o <<"-">> \o PadStart2(m) \o <<"-">> \o PadStart2(d)

\* DEFAULT_CATEGORIES (labels transliterated)
DEFAULT_CATEGORIES ==
    << [id |-> "cat_1", label |-> "food", iconKey |-> "Utensils", color |-> "#e8d5d5"],
       [id |-> "cat_2", label |-> "transport", iconKey |-> "Bus", color |-> "#8fa3ad"],
       [id |-> "cat_3", label |-> "shopping", iconKey |-> "ShoppingBag", color |-> "#8da399"],
       [id |-> "cat_4", label |-> "fun", iconKey |-> "Film", color |-> "#f0c4c4"],
       [id |-> "cat_5", label |-> "bills", iconKey |-> "Zap", color |-> "#b8c5d6"],
       [id |-> "cat_6", label |-> "medical", iconKey |-> "Heart", color |-> "#d6b8b8"] >>

\* The transactions and todos the callers hand to the data service
TxIds == {"1", "2"}
TodoIds == {"1", "2"}

TxInputs ==
    { [id |-> "1", date |-> DateString(2024, 1, 15), type |-> EXPENSE,
       categoryId |-> "cat_1", amount |-> 100, note |-> "lunch"],
      [id |-> "2", date |-> DateString(2024, 2, 1), type |-> INCOME,
       categoryId |-> "cat_2", amount |-> 250, note |-> ""] }

\* a todo with targetDate the date argument of handleCreateTodo, or undefined
Todo(id, c) ==
    IF id = "1"
    THEN [id |-> "1", text |-> "buy milk", isCompleted |-> c,
          createdAt |-> "2024-01-15T08:00:00.000Z", targetDate |-> Undefined]
    ELSE [id |-> id, text |-> "pay rent", isCompleted |-> c,
          createdAt |-> "2024-01-16T08:00:00.000Z", targetDate |-> "2024-01-20"]

\* the todos handleCreateTodo builds: not completed
TodoInputs == {Todo(id, FALSE) : id \in TodoIds}

\* the todos TodoView holds: completed or not
TodoItems == {Todo(id, c) : id \in TodoIds, c \in BOOLEAN}

SeqsUpTo(S, n) == UNION {[1..k -> S] : k \in 0..n}

\* the lists TodoView hands to reorderTodos: its items, one per id
TodoLists ==
    {l \in SeqsUpTo(TodoItems, Cardinality(TodoIds)) :
        \A i, j \in 1..Len(l) : l[i].id = l[j].id => i = j}

\* the list handleRemoveCategory hands to onCategoriesChange once the user has
\* confirmed: categories.filter(c => c.id !== id)
handleRemoveCategory(cats, id) == SelectSeq(cats, LAMBDA c : c.id # id)

\* the list saved after cat_1, the category of a stored transaction, is removed
CategoryInputs == {handleRemoveCategory(DEFAULT_CATEGORIES, "cat_1")}

-----------------------------------------------------------------------------
(* JSON *)

\* JSON.stringify of a Todo: a key whose value is undefined is left out
JsonTodo(t) ==
    IF Field(t, "targetDate") = Undefined
    THEN [f \in (DOMAIN t) \ {"targetDate"} |-> t[f]]
    ELSE t

JsonTodos(todos) == [i \in 1..Len(todos) |-> JsonTodo(todos[i])]

\* JSON.stringify of an AppData
JsonAppData(data) ==
    [transactions |-> data.transactions,
     todos |-> JsonTodos(data.todos),
     categories |-> data.categories]

-----------------------------------------------------------------------------
(* localStorage access of ApiService. An environment env is the browser's   *)
(* storage together with the deployed endpoint:                            *)
(*   [gasUrl, localData, categoriesCache, deployed, doc]                   *)

getGasUrl(env) == env.gasUrl

initial == [transactions |-> <<>>, todos |-> <<>>, categories |-> DEFAULT_CATEGORIES]

\* the AppData getLocalData returns
getLocalData(env) ==
    IF env.localData = Null THEN initial ELSE env.localData[1]

\* the storage getLocalData leaves behind: a missing blob is initialised
afterGetLocalData(env) ==
    IF env.localData = Null
    THEN [env EXCEPT !.localData = Some(JsonAppData(initial))]
    ELSE env

saveLocalData(env, data) == [env EXCEPT !.localData = Some(JsonAppData(data))]

-----------------------------------------------------------------------------
(* The remote endpoint: the Apps Script over a spreadsheet. The repository  *)
(* ships the script twice: backend_google_script.gs ("gs") and the         *)
(* DEFAULT_BACKEND_CODE that Settings offers for copying ("settings").     *)
(* A sheet is the sequence of its rows that hold content.                  *)

Backends == {"gs", "settings"}

TxHeaders == <<"id", "date", "type", "categoryId", "amount", "note">>

\* setup / ensureSheet: the header row of the Todos sheet
TodoHeaders(dep) ==
    IF dep = "gs" THEN <<"id", "text", "isCompleted", "createdAt">>
    ELSE <<"id", "text", "isCompleted", "createdAt", "targetDate">>

\* the spreadsheet after setup()
setup(dep) == [Transactions |-> <<TxHeaders>>, Todos |-> <<TodoHeaders(dep)>>]

\* a cell of the isCompleted column: the code reads it as a boolean or as text
BooleanCell(b) == [type |-> "boolean", value |-> b]

\* x || ''
OrEmpty(x) == IF x = Undefined \/ x = EmptyString THEN EmptyString ELSE x

\* Number(cell) of a cell that holds a number
Number(cell) == cell

\* a slip in the column order: type and categoryId change places
Gs_addTransaction_swapped(d, data) ==
    [d EXCEPT !.Transactions =
        Append(@, <<data.id, data.date, data.categoryId, data.type, data.amount, data.note>>)]

Gs_addTransaction(d, data) ==
    [d EXCEPT !.Transactions =
        Append(@, <<data.id, data.date, data.type, data.categoryId, data.amount, data.note>>)]

\* addTodo of backend_google_script.gs: four columns
Gs_addTodo(d, data) ==
    [d EXCEPT !.Todos =
        Append(@, <<data.id, data.text, BooleanCell(data.isCompleted), data.createdAt>>)]

\* addTodo of DEFAULT_BACKEND_CODE: five columns
Dbc_addTodo(d, data) ==
    [d EXCEPT !.Todos =
        Append(@, <<data.id, data.text, BooleanCell(data.isCompleted), data.createdAt,
                    OrEmpty(Field(data, "targetDate"))>>)]

\* the first data row (index >= 2) whose first cell is the id; 0 when none
FirstRowWithId(sheet, id) ==
    IF \E i \in 2..Len(sheet) : sheet[i][1] = id
    THEN CHOOSE i \in 2..Len(sheet) :
            sheet[i][1] = id /\ \A j \in 2..(i - 1) : sheet[j][1] # id
    ELSE 0

\* updateAllTodos of DEFAULT_BACKEND_CODE, up to and including clearContent
Dbc_clearTodos(d) ==
    LET sheet == d.Todos
        lastRow == Len(sheet)
    IN [d EXCEPT !.Todos = IF lastRow > 1 THEN SubSeq(sheet, 1, 1) ELSE sheet]

\* updateAllTodos of DEFAULT_BACKEND_CODE
Dbc_updateAllTodos(d, todos) ==
    LET cleared == Dbc_clearTodos(d)
        rows == [i \in 1..Len(todos) |->
                    <<todos[i].id, todos[i].text, BooleanCell(todos[i].isCompleted),
                      todos[i].createdAt, OrEmpty(Field(todos[i], "targetDate"))>>]
    IN IF Len(todos) > 0
       THEN [cleared EXCEPT !.Todos = @ \o rows]
       ELSE cleared

\* a slip: the cell is flipped instead of set
Gs_toggleTodo_flip(d, id, isCompleted) ==
    LET i == FirstRowWithId(d.Todos, id)
    IN IF i # 0
       THEN [d EXCEPT !.Todos[i][3] = BooleanCell(~@.value)]
       ELSE d

Gs_toggleTodo(d, id, isCompleted) ==
    LET i == FirstRowWithId(d.Todos, id)
    IN IF i # 0
       THEN [d EXCEPT !.Todos[i][3] = BooleanCell(isCompleted)]
       ELSE d

\* a slip: when no row has the id, the last row is deleted
Gs_deleteRow_last(d, sheetName, id) ==
    LET sheet == d[sheetName]
        i == FirstRowWithId(sheet, id)
        row == IF i # 0 THEN i ELSE Len(sheet)
    IN IF row > 1
       THEN [d EXCEPT ![sheetName] = SubSeq(sheet, 1, row - 1) \o SubSeq(sheet, row + 1, Len(sheet))]
       ELSE d

Gs_deleteRow(d, sheetName, id) ==
    LET sheet == d[sheetName]
        i == FirstRowWithId(sheet, id)
    IN IF i # 0
       THEN [d EXCEPT ![sheetName] = SubSeq(sheet, 1, i - 1) \o SubSeq(sheet, i + 1, Len(sheet))]
       ELSE d

IndexOf(headers, h) == CHOOSE j \in 1..Len(headers) : headers[j] = h

sheetToObjects(sheet) ==
    LET headers == sheet[1]
    IN [i \in 1..(Len(sheet) - 1) |->
            [h \in Range(headers) |-> sheet[i + 1][IndexOf(headers, h)]]]

\* t.isCompleted === 'TRUE' || t.isCompleted === true
IsCompletedCell(cell) ==
    \/ cell.type = "string" /\ cell.value = "TRUE"
    \/ cell.type = "boolean" /\ cell.value = TRUE

Gs_getAllData(d) ==
    LET txObjects == sheetToObjects(d.Transactions)
        txData == [i \in 1..Len(txObjects) |->
                      [txObjects[i] EXCEPT !.amount = Number(@)]]
        todoObjects == sheetToObjects(d.Todos)
        todoData == [i \in 1..Len(todoObjects) |->
                        [todoObjects[i] EXCEPT !.isCompleted = IsCompletedCell(@)]]
    IN [success |-> TRUE,
        data |-> [transactions |-> Reverse(txData),
                  todos |-> todoData,
                  categories |-> DEFAULT_CATEGORIES]]

Actions ==
    {"GET_DATA", "ADD_TRANSACTION", "DELETE_TRANSACTION", "ADD_TODO",
     "TOGGLE_TODO", "DELETE_TODO", "REORDER_TODOS"}

\* a slip: an action that is not known is answered as done
UnknownAction_done(d) == [doc |-> d, result |-> [success |-> TRUE]]

\* else { result = { success: false, message: "Unknown Action" } }
UnknownAction(d) ==
    [doc |-> d, result |-> [success |-> FALSE, message |-> "Unknown Action"]]

\* the action handleRequest dispatches on: the body's when there is a body
ActionOf(e) ==
    IF e.postData # Null THEN e.postData[1].action ELSE e.parameter.action

\* handleRequest(e) on spreadsheet d: the spreadsheet it leaves and the JSON it
\* answers. e is [parameter: [action], postData: Null or Some([action, payload])].
\* A null payload makes every handler that reads it throw; the catch block
\* answers {success: false, message: e.toString()}.
handleRequest(dep, e, d) ==
    LET hasBody == e.postData # Null
        action == ActionOf(e)
        payload == IF hasBody THEN Some(e.postData[1].payload) ELSE Null
        thrown == [success |-> FALSE, message |-> "TypeError"]
        ok == [success |-> TRUE]
    IN CASE action = "GET_DATA" ->
              [doc |-> d, result |-> Gs_getAllData(d)]
         [] action = "ADD_TRANSACTION" ->
              IF payload = Null THEN [doc |-> d, result |-> thrown]
              ELSE [doc |-> Gs_addTransaction(d, payload[1]), result |-> ok]
         [] action = "DELETE_TRANSACTION" ->
              IF payload = Null THEN [doc |-> d, result |-> thrown]
              ELSE [doc |-> Gs_deleteRow(d, "Transactions", payload[1].id), result |-> ok]
         [] action = "ADD_TODO" ->
              IF payload = Null THEN [doc |-> d, result |-> thrown]
              ELSE [doc |-> IF dep = "gs" THEN Gs_addTodo(d, payload[1])
                            ELSE Dbc_addTodo(d, payload[1]),
                    result |-> ok]
         [] action = "TOGGLE_TODO" ->
              IF payload = Null THEN [doc |-> d, result |-> thrown]
              ELSE [doc |-> Gs_toggleTodo(d, payload[1].id, payload[1].isCompleted),
                    result |-> ok]
         [] action = "DELETE_TODO" ->
              IF payload = Null THEN [doc |-> d, result |-> thrown]
              ELSE [doc |-> Gs_deleteRow(d, "Todos", payload[1].id), result |-> ok]
         [] action = "REORDER_TODOS" /\ dep = "settings" ->
              IF payload = Null THEN [doc |-> Dbc_clearTodos(d), result |-> thrown]
              ELSE [doc |-> Dbc_updateAllTodos(d, payload[1]), result |-> ok]
         [] OTHER -> UnknownAction(d)

-----------------------------------------------------------------------------
(* HTTP between the browser and the endpoint. A request either never        *)
(* reaches the script (fetch rejects), or is handled and answered with     *)
(* JSON, or is handled and answered with a body response.json() cannot     *)
(* parse, or ("threw") the script throws before it reads a table and its   *)
(* catch block answers {success: false, message}.                          *)

Net == {"ok", "unreachable", "unparsable"}

\* fetch(`${url}?action=GET_DATA`)
GetRequest(action) ==
    [parameter |-> [action |-> action], postData |-> Null]

\* fetch(url, {method: 'POST', body: JSON.stringify({action, payload})})
PostRequest(action, payload) ==
    [parameter |-> [action |-> Undefined],
     postData |-> Some([action |-> action, payload |-> payload])]

\* await fetch(...); await response.json()
Exchange(env, e, net) ==
    IF net = "unreachable"
    THEN [env |-> env, got |-> "rejected", error |-> "TypeError: Failed to fetch"]
    ELSE IF net = "threw"
    THEN [env |-> env, got |-> "json",
          json |-> [success |-> FALSE, message |-> "Exception: cannot open the spreadsheet"]]
    ELSE LET r == handleRequest(env.deployed, e, env.doc)
         IN IF net = "ok"
            THEN [env |-> [env EXCEPT !.doc = r.doc], got |-> "json", json |-> r.result]
            ELSE [env |-> [env EXCEPT !.doc = r.doc], got |-> "rejected",
                  error |-> "SyntaxError: Unexpected token"]

\* how an async method settles
Resolved(env, value, requests) ==
    [env |-> env, settled |-> "resolved", value |-> value, requests |-> requests]
Rejected(env, error, requests) ==
    [env |-> env, settled |-> "rejected", value |-> [error |-> error], requests |-> requests]

\* const response = await fetch(...); return await response.json();  (no try/catch)
ReturnJson(x, requests) ==
    IF x.got = "json"
    THEN Resolved(x.env, x.json, requests)
    ELSE Rejected(x.env, x.error, requests)

-----------------------------------------------------------------------------
(* ApiService: each method maps the environment, its arguments and the      *)
(* fate of its HTTP request to the environment it leaves and the way its   *)
(* promise settles.                                                        *)

fetchData(env, net) ==
    LET url == getGasUrl(env)
    IN IF Truthy(url)
       THEN LET e == GetRequest("GET_DATA")
                x == Exchange(env, e, net)
            IN IF x.got = "json" /\ x.json.success
               THEN Resolved(x.env, x.json, <<e>>)
               ELSE Resolved(x.env,
                             [success |-> FALSE, message |-> "Failed to fetch from cloud."],
                             <<e>>)
       ELSE Resolved(afterGetLocalData(env),
                     [success |-> TRUE, data |-> getLocalData(env)], <<>>)

addTransaction(env, transaction, net) ==
    LET url == getGasUrl(env)
    IN IF Truthy(url)
       THEN LET e == PostRequest("ADD_TRANSACTION", transaction)
            IN ReturnJson(Exchange(env, e, net), <<e>>)
       ELSE LET data == getLocalData(env)
                unshifted == [data EXCEPT !.transactions = <<transaction>> \o @]
            IN Resolved(saveLocalData(afterGetLocalData(env), unshifted),
                        [success |-> TRUE, data |-> transaction], <<>>)

deleteTransaction(env, id, net) ==
    LET url == getGasUrl(env)
    IN IF Truthy(url)
       THEN LET e == PostRequest("DELETE_TRANSACTION", [id |-> id])
            IN ReturnJson(Exchange(env, e, net), <<e>>)
       ELSE LET data == getLocalData(env)
                filtered == [data EXCEPT !.transactions = SelectSeq(@, LAMBDA t : t.id # id)]
            IN Resolved(saveLocalData(afterGetLocalData(env), filtered),
                        [success |-> TRUE], <<>>)

\* a slip: the remote branch also writes the todo to the local blob
addTodo_writeThrough(env, todo, net) ==
    LET url == getGasUrl(env)
        data == getLocalData(env)
        unshifted == [data EXCEPT !.todos = <<todo>> \o @]
        saved == saveLocalData(afterGetLocalData(env), unshifted)
    IN IF Truthy(url)
       THEN LET e == PostRequest("ADD_TODO", JsonTodo(todo))
            IN ReturnJson(Exchange(saved, e, net), <<e>>)
       ELSE Resolved(saved, [success |-> TRUE, data |-> todo], <<>>)

addTodo(env, todo, net) ==
    LET url == getGasUrl(env)
    IN IF Truthy(url)
       THEN LET e == PostRequest("ADD_TODO", JsonTodo(todo))
            IN ReturnJson(Exchange(env, e, net), <<e>>)
       ELSE LET data == getLocalData(env)
                unshifted == [data EXCEPT !.todos = <<todo>> \o @]
            IN Resolved(saveLocalData(afterGetLocalData(env), unshifted),
                        [success |-> TRUE, data |-> todo], <<>>)

toggleTodo(env, id, isCompleted, net) ==
    LET url == getGasUrl(env)
    IN IF Truthy(url)
       THEN LET e == PostRequest("TOGGLE_TODO", [id |-> id, isCompleted |-> isCompleted])
            IN ReturnJson(Exchange(env, e, net), <<e>>)
       ELSE LET data == getLocalData(env)
                index == FindIndex(data.todos, LAMBDA t : t.id = id)
            IN IF index # 0
               THEN Resolved(saveLocalData(afterGetLocalData(env),
                                 [data EXCEPT !.todos[index].isCompleted = isCompleted]),
                             [success |-> TRUE], <<>>)
               ELSE Resolved(afterGetLocalData(env), [success |-> TRUE], <<>>)

deleteTodo(env, id, net) ==
    LET url == getGasUrl(env)
    IN IF Truthy(url)
       THEN LET e == PostRequest("DELETE_TODO", [id |-> id])
            IN ReturnJson(Exchange(env, e, net), <<e>>)
       ELSE LET data == getLocalData(env)
                filtered == [data EXCEPT !.todos = SelectSeq(@, LAMBDA t : t.id # id)]
            IN Resolved(saveLocalData(afterGetLocalData(env), filtered),
                        [success |-> TRUE], <<>>)

\* a slip: removing a category also removes the transactions filed under it
saveCategories_cascade(env, categories) ==
    LET data == getLocalData(env)
        kept == SelectSeq(data.transactions,
                          LAMBDA t : \E i \in 1..Len(categories) : categories[i].id = t.categoryId)
    IN Resolved(saveLocalData(afterGetLocalData(env),
                              [data EXCEPT !.categories = categories, !.transactions = kept]),
                [success |-> TRUE], <<>>)

saveCategories(env, categories) ==
    LET url == getGasUrl(env)
    IN IF Truthy(url)
       THEN Resolved([env EXCEPT !.categoriesCache = Some(categories)],
                     [success |-> TRUE], <<>>)
       ELSE LET data == getLocalData(env)
            IN Resolved(saveLocalData(afterGetLocalData(env),
                                      [data EXCEPT !.categories = categories]),
                        [success |-> TRUE], <<>>)

\* a slip: the local branch saves a fresh blob holding the todos
reorderTodos_freshBlob(env, todos, net) ==
    LET url == getGasUrl(env)
    IN IF Truthy(url)
       THEN LET e == PostRequest("REORDER_TODOS", JsonTodos(todos))
                x == Exchange(env, e, net)
            IN IF x.got = "json"
               THEN Resolved(x.env, x.json, <<e>>)
               ELSE Resolved(x.env,
                             [success |-> FALSE, message |-> "Cloud reorder failed"], <<e>>)
       ELSE Resolved(saveLocalData(afterGetLocalData(env), [initial EXCEPT !.todos = todos]),
                     [success |-> TRUE], <<>>)

reorderTodos(env, todos, net) ==
    LET url == getGasUrl(env)
    IN IF Truthy(url)
       THEN LET e == PostRequest("REORDER_TODOS", JsonTodos(todos))
                x == Exchange(env, e, net)
            IN IF x.got = "json"
               THEN Resolved(x.env, x.json, <<e>>)
               ELSE Resolved(x.env,
                             [success |-> FALSE, message |-> "Cloud reorder failed"], <<e>>)
       ELSE LET data == getLocalData(env)
            IN Resolved(saveLocalData(afterGetLocalData(env), [data EXCEPT !.todos = todos]),
                        [success |-> TRUE], <<>>)

\* try { const res = await this.addTransaction(tx);
\*       if (res.success) successCount++; else failCount++; } catch (e) { failCount++; }
Tally(acc, r) ==
    [env |-> r.env,
     successCount |-> acc.successCount +
                        (IF r.settled = "resolved" /\ r.value.success THEN 1 ELSE 0),
     failCount |-> acc.failCount +
                     (IF r.settled = "resolved" /\ r.value.success THEN 0 ELSE 1),
     requests |-> acc.requests \o r.requests]

\* for (const tx of localData.transactions) { ... }: nets[i] is the fate of the
\* request that adds txs[i]
RECURSIVE SyncTransactions(_, _, _)
SyncTransactions(acc, txs, nets) ==
    IF txs = <<>> THEN acc
    ELSE SyncTransactions(Tally(acc, addTransaction(acc.env, Head(txs), Head(nets))),
                          Tail(txs), Tail(nets))

\* a slip: without a URL the local blob is cleared
syncLocalToCloud_wipe(env, fates) ==
    Resolved([env EXCEPT !.localData = Some(JsonAppData(initial))],
             [success |-> FALSE, message |-> "set the Script URL first"], <<>>)

\* syncLocalToCloud(): fates.todos is the fate of the REORDER_TODOS request,
\* fates.transactions those of the ADD_TRANSACTION requests. The message is
\* kept as the two counts it spells out.
syncLocalToCloud(env, fates) ==
    LET url == getGasUrl(env)
    IN IF ~Truthy(url)
       THEN Resolved(env, [success |-> FALSE, message |-> "set the Script URL first"], <<>>)
       ELSE LET blob == getLocalData(env)
                todos == reorderTodos(afterGetLocalData(env), blob.todos, fates.todos)
                failed == IF todos.settled = "rejected" THEN 1 ELSE 0
                done == SyncTransactions([env |-> todos.env, successCount |-> 0,
                                          failCount |-> failed,
                                          requests |-> todos.requests],
                                         blob.transactions, fates.transactions)
            IN Resolved(done.env,
                        [success |-> done.failCount = 0,
                         message |-> [successCount |-> done.successCount,
                                      failCount |-> done.failCount]],
                        done.requests)

-----------------------------------------------------------------------------
(* ExpenseView: the month shown and the month summary                       *)

MaxShown == 3        \* most transactions in the list ExpenseView is given
MaxMonthSteps == 2   \* most months the view is moved away from the current month

DigitValue(c) == CHOOSE n \in 0..9 : Digit(n) = c

\* Number(s) of a string of digits
RECURSIVE ParseNumber(_)
ParseNumber(s) ==
    IF s = <<>> THEN 0
    ELSE 10 * ParseNumber(SubSeq(s, 1, Len(s) - 1)) + DigitValue(s[Len(s)])

\* s.split('-') of a string holding one '-'
SplitDash(s) ==
    LET k == CHOOSE i \in 1..Len(s) : s[i] = "-" /\ \A j \in 1..(i - 1) : s[j] # "-"
    IN <<SubSeq(s, 1, k - 1), SubSeq(s, k + 1, Len(s))>>

\* `${y}-${String(m).padStart(2, '0')}`
MonthString(y, m) == YearString(y) \o <<"-">> \o PadStart2(m)

\* String.prototype.startsWith
StartsWith(s, prefix) ==
    Len(prefix) <= Len(s) /\ SubSeq(s, 1, Len(prefix)) = prefix

\* the month adjustMonth(delta) selects: new Date(y, m - 1 + delta, 1) rolls the year over
adjustMonth(month, delta) ==
    LET parts == SplitDash(month)
        y == ParseNumber(parts[1])
        m == ParseNumber(parts[2])
        monthIndex == m - 1 + delta
        newY == y + (monthIndex \div 12)
        newM == (monthIndex % 12) + 1
    IN MonthString(newY, newM)

\* a slip: only the year of the selected month is compared
currentMonthTransactions_byYear(txs, month) ==
    SelectSeq(txs, LAMBDA t : StartsWith(t.date, SubSeq(month, 1, 4)))

currentMonthTransactions(txs, month) ==
    SelectSeq(txs, LAMBDA t : StartsWith(t.date, month))

\* reduce((acc, t) => acc + t.amount, 0)
RECURSIVE SumAmounts(_)
SumAmounts(txs) ==
    IF txs = <<>> THEN 0 ELSE SumAmounts(SubSeq(txs, 1, Len(txs) - 1)) + txs[Len(txs)].amount

Summary(monthTxs) ==
    LET income == SumAmounts(SelectSeq(monthTxs, LAMBDA t : t.type = INCOME))
        expense == SumAmounts(SelectSeq(monthTxs, LAMBDA t : t.type = EXPENSE))
    IN [income |-> income, expense |-> expense, balance |-> income - expense]

\* what the dashboard shows
summary == Summary(currentMonthTransactions(transactions, selectedMonth))

\* the months the page can be opened in (new Date())
NowMonths == {MonthString(2024, 1), MonthString(2024, 12)}

MonthIndex(month) ==
    LET parts == SplitDash(month)
    IN 12 * ParseNumber(parts[1]) + ParseNumber(parts[2])

WithinSteps(month) ==
    \E now \in NowMonths :
        /\ MonthIndex(month) - MonthIndex(now) <= MaxMonthSteps
        /\ MonthIndex(now) - MonthIndex(month) <= MaxMonthSteps

\* the transactions the view may be given; the date of the last one was cleared
ShownInputs ==
    { [id |-> "1", date |-> DateString(2024, 1, 15), type |-> EXPENSE,
       categoryId |-> "cat_1", amount |-> 100, note |-> "lunch"],
      [id |-> "2", date |-> DateString(2024, 1, 31), type |-> INCOME,
       categoryId |-> "cat_2", amount |-> 250, note |-> ""],
      [id |-> "3", date |-> DateString(2024, 2, 1), type |-> EXPENSE,
       categoryId |-> "cat_1", amount |-> 30, note |-> ""],
      [id |-> "4", date |-> DateString(2023, 1, 15), type |-> INCOME,
       categoryId |-> "cat_2", amount |-> 7, note |-> ""],
      [id |-> "5", date |-> DateString(2024, 12, 31), type |-> EXPENSE,
       categoryId |-> "cat_3", amount |-> 5, note |-> ""],
      [id |-> "6", date |-> DateString(2025, 1, 1), type |-> INCOME,
       categoryId |-> "cat_2", amount |-> 1000, note |-> ""],
      [id |-> "7", date |-> <<>>, type |-> EXPENSE,
       categoryId |-> "cat_1", amount |-> 1, note |-> ""],
      [id |-> "8", date |-> DateString(2025, 1, 2), type |-> EXPENSE,
       categoryId |-> "cat_1", amount |-> 40, note |-> ""] }

-----------------------------------------------------------------------------
(* The data service as a state machine: one action per ApiService method    *)

Url == "https://script.google.com/macros/s/deployment/exec"

Env ==
    [gasUrl |-> gasUrl, localData |-> localData, categoriesCache |-> categoriesCache,
     deployed |-> deployed, doc |-> doc]

\* the fates a call's HTTP request can meet; a local call issues none
Fates == IF Truthy(gasUrl) THEN Net ELSE {"ok"}

\* the records the store in use holds
StoredTransactions ==
    IF Truthy(gasUrl) THEN Tail(doc.Transactions) ELSE getLocalData(Env).transactions
StoredTodos ==
    IF Truthy(gasUrl) THEN Tail(doc.Todos) ELSE getLocalData(Env).todos

\* the method has run to the end: storage, spreadsheet and the settled promise
Stored(op, arg, r) ==
    /\ gasUrl' = r.env.gasUrl
    /\ localData' = r.env.localData
    /\ categoriesCache' = r.env.categoriesCache
    /\ deployed' = r.env.deployed
    /\ doc' = r.env.doc
    /\ call' = [op |-> op, arg |-> arg, settled |-> r.settled, value |-> r.value,
                requests |-> r.requests]

Settle(op, arg, r) ==
    /\ Stored(op, arg, r)
    /\ UNCHANGED <<viewVars, lockVars, appVars>>

FetchData ==
    \E net \in Fates : Settle("fetchData", Null, fetchData(Env, net))

AddTransaction ==
    /\ Len(StoredTransactions) + Len(StoredTodos) < MaxRecords
    /\ \E transaction \in TxInputs, net \in Fates :
          Settle("addTransaction", transaction, addTransaction(Env, transaction, net))

DeleteTransaction ==
    \E id \in TxIds, net \in Fates :
        Settle("deleteTransaction", id, deleteTransaction(Env, id, net))

AddTodo ==
    /\ Len(StoredTransactions) + Len(StoredTodos) < MaxRecords
    /\ \E todo \in TodoInputs, net \in Fates :
          Settle("addTodo", todo, addTodo(Env, todo, net))

ToggleTodo ==
    \E id \in TodoIds, isCompleted \in BOOLEAN, net \in Fates :
        Settle("toggleTodo", [id |-> id, isCompleted |-> isCompleted],
               toggleTodo(Env, id, isCompleted, net))

DeleteTodo ==
    \E id \in TodoIds, net \in Fates :
        Settle("deleteTodo", id, deleteTodo(Env, id, net))

SaveCategories ==
    \E categories \in CategoryInputs :
        Settle("saveCategories", categories, saveCategories(Env, categories))

ReorderTodos ==
    \E todos \in TodoLists, net \in Fates :
        /\ Len(StoredTransactions) + Len(todos) <= MaxRecords
        /\ Settle("reorderTodos", todos, reorderTodos(Env, todos, net))

NoCall == [op |-> "none", arg |-> Null, settled |-> "resolved", value |-> [success |-> TRUE],
           requests |-> <<>>]

InitView ==
    /\ selectedMonth = MonthString(2024, 1)
    /\ transactions = <<>>

\* no execution of handleRequest has started and nothing holds the script lock
InitLock ==
    /\ lock = Null
    /\ executions = <<>>

\* no view handler is running
Idle == [name |-> "idle", settled |-> "none", success |-> FALSE, flag |-> FALSE,
         arg |-> EmptyString]

\* App, ExpenseView and TodoView as their useState calls leave them
InitApp ==
    /\ dataTodos = <<>>
    /\ dataCategories = DEFAULT_CATEGORIES
    /\ activeTab = "EXPENSE"
    /\ initialExpenseNote = EmptyString
    /\ form = [amount |-> <<>>, note |-> EmptyString, currency |-> "TWD", loading |-> FALSE]
    /\ items = <<>>
    /\ modalOpen = FALSE
    /\ processingTodo = Null
    /\ activeId = Null
    /\ task = Idle

\* the data service is used on its own: the views are not mounted
InitUnmounted ==
    /\ InitLock
    /\ InitApp
    /\ refreshes = 0

\* a fresh browser, with or without a configured URL, and a spreadsheet after setup()
Init ==
    /\ gasUrl \in {Null, Some(EmptyString), Some(Url)}
    /\ localData = Null
    /\ categoriesCache = Null
    /\ deployed \in IF Truthy(gasUrl) THEN Backends ELSE {"settings"}
    /\ doc = setup(deployed)
    /\ call = NoCall
    /\ InitView
    /\ InitUnmounted

Next ==
    \/ FetchData
    \/ AddTransaction
    \/ DeleteTransaction
    \/ AddTodo
    \/ ToggleTodo
    \/ DeleteTodo
    \/ SaveCategories
    \/ ReorderTodos

Spec == Init /\ [][Next]_vars

-----------------------------------------------------------------------------
(* ExpenseView over every list it may be given: the user moves the month    *)

InitStore ==
    /\ gasUrl = Null
    /\ localData = Null
    /\ categoriesCache = Null
    /\ deployed = "settings"
    /\ doc = setup(deployed)
    /\ call = NoCall

InitSummary ==
    /\ InitStore
    /\ InitUnmounted
    /\ selectedMonth \in NowMonths
    /\ transactions \in SeqsUpTo(ShownInputs, MaxShown)

handlePrevMonth ==
    /\ WithinSteps(adjustMonth(selectedMonth, -1))
    /\ selectedMonth' = adjustMonth(selectedMonth, -1)
    /\ UNCHANGED <<transactions, storeVars, lockVars, appVars>>

handleNextMonth ==
    /\ WithinSteps(adjustMonth(selectedMonth, 1))
    /\ selectedMonth' = adjustMonth(selectedMonth, 1)
    /\ UNCHANGED <<transactions, storeVars, lockVars, appVars>>

NextSummary == handlePrevMonth \/ handleNextMonth

SpecSummary == InitSummary /\ [][NextSummary]_vars

-----------------------------------------------------------------------------
(* Two browsers side by side: A has no URL configured and works on its      *)
(* blob (localData), B has the URL configured and works on the endpoint    *)
(* (doc). Every call is made in both and every request of B is answered.   *)

EnvA ==
    [gasUrl |-> Null, localData |-> localData, categoriesCache |-> Null,
     deployed |-> deployed, doc |-> doc]
EnvB ==
    [gasUrl |-> Some(Url), localData |-> Null, categoriesCache |-> Null,
     deployed |-> deployed, doc |-> doc]

InitUniform ==
    /\ gasUrl = Null
    /\ localData = Null
    /\ categoriesCache = Null
    /\ deployed \in Backends
    /\ doc = setup(deployed)
    /\ call = NoCall
    /\ InitView
    /\ InitUnmounted

InBoth(op, arg, a, b) ==
    /\ localData' = a.env.localData
    /\ doc' = b.env.doc
    /\ call' = [op |-> op, arg |-> arg, settled |-> b.settled, value |-> b.value,
                requests |-> b.requests]
    /\ UNCHANGED <<gasUrl, categoriesCache, deployed, viewVars, lockVars, appVars>>

RoomInBoth(n) ==
    /\ Len(getLocalData(EnvA).transactions) + Len(getLocalData(EnvA).todos) + n <= MaxRecords
    /\ Len(doc.Transactions) - 1 + Len(doc.Todos) - 1 + n <= MaxRecords

BothAddTransaction ==
    /\ RoomInBoth(1)
    /\ \E t \in TxInputs :
          InBoth("addTransaction", t, addTransaction(EnvA, t, "ok"), addTransaction(EnvB, t, "ok"))

BothDeleteTransaction ==
    \E id \in TxIds :
        InBoth("deleteTransaction", id,
               deleteTransaction(EnvA, id, "ok"), deleteTransaction(EnvB, id, "ok"))

BothAddTodo ==
    /\ RoomInBoth(1)
    /\ \E todo \in TodoInputs :
          InBoth("addTodo", todo, addTodo(EnvA, todo, "ok"), addTodo(EnvB, todo, "ok"))

BothToggleTodo ==
    \E id \in TodoIds, isCompleted \in BOOLEAN :
        InBoth("toggleTodo", [id |-> id, isCompleted |-> isCompleted],
               toggleTodo(EnvA, id, isCompleted, "ok"), toggleTodo(EnvB, id, isCompleted, "ok"))

BothDeleteTodo ==
    \E id \in TodoIds :
        InBoth("deleteTodo", id, deleteTodo(EnvA, id, "ok"), deleteTodo(EnvB, id, "ok"))

BothReorderTodos ==
    \E todos \in TodoLists :
        /\ Len(getLocalData(EnvA).transactions) + Len(todos) <= MaxRecords
        /\ Len(doc.Transactions) - 1 + Len(todos) <= MaxRecords
        /\ InBoth("reorderTodos", todos,
                  reorderTodos(EnvA, todos, "ok"), reorderTodos(EnvB, todos, "ok"))

NextUniform ==
    \/ BothAddTransaction
    \/ BothDeleteTransaction
    \/ BothAddTodo
    \/ BothToggleTodo
    \/ BothDeleteTodo
    \/ BothReorderTodos

SpecUniform == InitUniform /\ [][NextUniform]_vars

-----------------------------------------------------------------------------
(* The endpoint under concurrent requests. Every execution of handleRequest *)
(* calls lock.tryLock(10000) and goes on into the try block whatever it    *)
(* returned; the finally block calls lock.releaseLock(). tryLock waits at  *)
(* most ten seconds: while another execution holds the lock it may give up *)
(* and return false. releaseLock releases the lock of the execution that   *)
(* holds it and is without effect in one that does not.                    *)

MaxRequests == 2   \* executions of handleRequest that overlap

Requests == 1..MaxRequests

\* the requests sent to the endpoint
EndpointRequests ==
    {GetRequest("GET_DATA")}
      \cup {PostRequest("ADD_TRANSACTION", t) : t \in {x \in TxInputs : x.id = "1"}}
      \cup {PostRequest("DELETE_TRANSACTION", [id |-> "1"])}
      \cup {PostRequest("ADD_TODO", JsonTodo(Todo("1", FALSE)))}
      \cup {GetRequest(Undefined), PostRequest("SAVE_CATEGORIES", [id |-> "1"])}

\* the executions that are inside the try block of handleRequest
InBody == {r \in DOMAIN executions : executions[r].pc = "try"}

\* doGet(e) / doPost(e): a request arrives and its execution calls tryLock
Arrive(r) ==
    /\ executions[r].pc = "idle"
    /\ \E e \in EndpointRequests :
          executions' = [executions EXCEPT ![r] = [pc |-> "tryLock", e |-> e]]
    /\ UNCHANGED <<lock, storeVars, viewVars, appVars>>

\* lock.tryLock(10000) returns true: the lock was free, or became free in time
TryLockAcquired(r) ==
    /\ executions[r].pc = "tryLock"
    /\ lock = Null
    /\ lock' = Some(r)
    /\ executions' = [executions EXCEPT ![r].pc = "try"]
    /\ UNCHANGED <<storeVars, viewVars, appVars>>

\* lock.tryLock(10000) returns false: another execution held the lock for the
\* ten seconds; the value is not looked at
TryLockTimedOut(r) ==
    /\ executions[r].pc = "tryLock"
    /\ lock # Null
    /\ executions' = [executions EXCEPT ![r].pc = "try"]
    /\ UNCHANGED <<lock, storeVars, viewVars, appVars>>

\* the try block: the action is dispatched and the tables are read and written
TryBlock(r) ==
    /\ executions[r].pc = "try"
    /\ LET done == handleRequest(deployed, executions[r].e, doc)
       IN /\ Len(done.doc.Transactions) + Len(done.doc.Todos) - 2 <= MaxRecords
          /\ doc' = done.doc
          /\ executions' = [executions EXCEPT ![r] =
                               [pc |-> "finally", e |-> @.e,
                                answer |-> [f \in DOMAIN done.result \ {"data"} |->
                                               done.result[f]]]]
    /\ UNCHANGED <<lock, gasUrl, localData, categoriesCache, deployed, call,
                   viewVars, appVars>>

\* a slip: the answer is sent and the lock is kept
ReleaseLock_kept(r) ==
    /\ executions[r].pc = "finally"
    /\ executions' = [executions EXCEPT ![r] = [pc |-> "idle"]]
    /\ UNCHANGED <<lock, storeVars, viewVars, appVars>>

\* finally { lock.releaseLock() } and the answer is sent
ReleaseLock(r) ==
    /\ executions[r].pc = "finally"
    /\ lock' = IF lock = Some(r) THEN Null ELSE lock
    /\ executions' = [executions EXCEPT ![r] = [pc |-> "idle"]]
    /\ UNCHANGED <<storeVars, viewVars, appVars>>

InitEndpoint ==
    /\ gasUrl = Some(Url)
    /\ localData = Null
    /\ categoriesCache = Null
    /\ deployed \in Backends
    /\ doc = setup(deployed)
    /\ call = NoCall
    /\ InitView
    /\ InitApp
    /\ refreshes = 0
    /\ lock = Null
    /\ executions = [r \in Requests |-> [pc |-> "idle"]]

NextEndpoint ==
    \E r \in Requests :
        \/ Arrive(r)
        \/ TryLockAcquired(r)
        \/ TryLockTimedOut(r)
        \/ TryBlock(r)
        \/ ReleaseLock(r)

SpecEndpoint == InitEndpoint /\ [][NextEndpoint]_vars

\* the catch block: JSON.parse, openById or the handling of the action threw
\* before a table was written; the answer carries e.toString()
Catch(r) ==
    /\ executions[r].pc = "try"
    /\ executions' = [executions EXCEPT ![r] =
                         [pc |-> "finally", e |-> @.e,
                          answer |-> [success |-> FALSE, message |-> "Exception"]]]
    /\ UNCHANGED <<lock, storeVars, viewVars, appVars>>

\* a request arrives: one that writes a row, or one with an unknown action
ArriveLive(r) ==
    /\ executions[r].pc = "idle"
    /\ \E e \in {PostRequest("ADD_TODO", JsonTodo(Todo("1", FALSE))), GetRequest(Undefined)} :
          executions' = [executions EXCEPT ![r] = [pc |-> "tryLock", e |-> e]]
    /\ UNCHANGED <<lock, storeVars, viewVars, appVars>>

NextEndpointLive ==
    \E r \in Requests :
        \/ ArriveLive(r)
        \/ TryLockAcquired(r)
        \/ TryLockTimedOut(r)
        \/ TryBlock(r)
        \/ Catch(r)
        \/ ReleaseLock(r)

\* an execution that has started runs to its end: tryLock returns within ten
\* seconds, the try block ends normally or in the catch block, and the finally
\* block runs
SpecEndpointLive ==
    /\ InitEndpoint
    /\ [][NextEndpointLive]_vars
    /\ \A r \in Requests :
          /\ WF_vars(TryLockAcquired(r) \/ TryLockTimedOut(r))
          /\ WF_vars(TryBlock(r) \/ Catch(r))
          /\ WF_vars(ReleaseLock(r))

-----------------------------------------------------------------------------
(* The application: App with the view it shows (ExpenseView, TodoView or    *)
(* Settings) over the data service. A handler runs up to its await of a    *)
(* data-service call in one step (the call settles in that step) and       *)
(* resumes after the await in another; refreshData is called without being *)
(* awaited and completes in a step of its own. One handler runs at a time. *)

\* the fates of a request of the mounted application
AppFates == IF Truthy(gasUrl) THEN {"ok", "unreachable", "threw"} ELSE {"ok"}

uiVars == <<activeTab, initialExpenseNote, form, modalOpen, processingTodo, activeId>>
dataVars == <<transactions, dataTodos, dataCategories, items>>

\* useState of ExpenseView, then useEffect: if (initialNote) setNote(initialNote)
ExpenseViewMounted(initialNote) ==
    [amount |-> <<>>, note |-> initialNote, currency |-> "TWD", loading |-> FALSE]

\* a slip: the note field of the view mounted starts empty
Mount_blank(view, initialNote) ==
    /\ activeTab' = view
    /\ form' = ExpenseViewMounted(EmptyString)
    /\ items' = dataTodos
    /\ modalOpen' = FALSE
    /\ processingTodo' = Null
    /\ activeId' = Null

\* the view shown is replaced: the new one starts from its useState values
Mount(view, initialNote) ==
    /\ activeTab' = view
    /\ form' = ExpenseViewMounted(initialNote)
    /\ items' = dataTodos
    /\ modalOpen' = FALSE
    /\ processingTodo' = Null
    /\ activeId' = Null

\* NavButton onClick: setActiveTab(view), for the views the user visits
NavButton(views) ==
    /\ task = Idle
    /\ \E view \in views :
          /\ view # activeTab
          /\ Mount(view, initialExpenseNote)
    /\ UNCHANGED <<storeVars, selectedMonth, lockVars, transactions, dataTodos,
                   dataCategories, initialExpenseNote, task, refreshes>>

\* a slip: a failed fetch empties the displayed lists
refreshData_clear(data, r) ==
    IF r.settled = "resolved" /\ r.value.success /\ "data" \in DOMAIN r.value
    THEN r.value.data
    ELSE [data EXCEPT !.transactions = <<>>, !.todos = <<>>]

\* App.refreshData once its fetchData has settled as r: the data it leaves
refreshData(data, r) ==
    IF r.settled = "resolved" /\ r.value.success /\ "data" \in DOMAIN r.value
    THEN r.value.data
    ELSE data

\* a call of refreshData completes; setData(res.data) hands TodoView a new
\* todos prop and its useEffect copies it into items
Refresh ==
    /\ refreshes > 0
    /\ refreshes' = refreshes - 1
    /\ \E net \in IF Truthy(gasUrl) THEN Net \cup {"threw"} ELSE {"ok"} :
          LET r == fetchData(Env, net)
              old == [transactions |-> transactions, todos |-> dataTodos,
                      categories |-> dataCategories]
              new == refreshData(old, r)
          IN /\ Stored("fetchData", Null, r)
             /\ transactions' = new.transactions
             /\ dataTodos' = new.todos
             /\ dataCategories' = new.categories
             /\ items' = IF r.value.success THEN new.todos ELSE items
    /\ UNCHANGED <<selectedMonth, lockVars, uiVars, task>>

\* the id of a stored record: a record of the blob or a row of the sheet
StoredId(x) == IF Truthy(gasUrl) THEN x[1] ELSE x.id

MaxPending == 1   \* most calls of refreshData not yet completed when a handler starts
MaxEntries == 1   \* most records the store of the mounted application holds

\* a handler has called a data-service method, which settled as r, and awaits it
Awaiting(name, r, flag, arg) ==
    [name |-> name, settled |-> r.settled,
     success |-> r.settled = "resolved" /\ r.value.success, flag |-> flag, arg |-> arg]

\* the handler may start: none is running and the store has room for n records
MayStart(n) ==
    /\ task = Idle
    /\ refreshes < MaxPending
    /\ Len(StoredTransactions) + Len(StoredTodos) + n <= MaxEntries

\* Date.now().toString(): the first id no stored or shown record of the list has
FreshIds(shown, stored) ==
    LET free == {n \in 1..(Len(shown) + Len(stored) + 1) :
                    /\ \A i \in 1..Len(shown) : shown[i].id # ToString(n)
                    /\ \A i \in 1..Len(stored) : StoredId(stored[i]) # ToString(n)}
    IN {ToString(CHOOSE n \in free : \A m \in free : n <= m)}

(* ExpenseView *)

\* what the user types: the amount field (type="number"), the note, the currency
FormInputs ==
    {[amount |-> <<"8">>, note |-> f[1], currency |-> f[2], loading |-> FALSE] :
        f \in {<<"tea", "USD">>}}

\* setAmount / setNote / setCurrency: the user fills the form in
FillForm ==
    /\ activeTab = "EXPENSE"
    /\ task = Idle
    /\ form.amount = <<>>
    /\ \E f \in FormInputs :
          /\ form' = [f EXCEPT !.note = IF form.note # EmptyString THEN form.note ELSE f.note]
    /\ UNCHANGED <<storeVars, selectedMonth, lockVars, dataVars, activeTab,
                   initialExpenseNote, modalOpen, processingTodo, activeId, task, refreshes>>

\* the rate open.er-api.com gives, as a fraction: 63/2 = 31.5
Rate == [num |-> 63, den |-> 2]
RateFates == {"ok", "unreachable", "no_rate"}

\* getExchangeRate(from, to): a rate, or null when the request fails or the
\* answer holds no rate
getExchangeRate(from, to, fate) ==
    IF from = to THEN Some([num |-> 1, den |-> 1])
    ELSE IF fate = "ok" THEN Some(Rate)
    ELSE Null

\* a slip: without a rate the amount is stored as 0 and the note is marked
Converted_zero(amount, note, currency, rate) ==
    IF currency # "TWD" /\ rate = Null
    THEN [amount |-> 0, note |-> note \o " (" \o currency \o ")"]
    ELSE [amount |-> amount, note |-> note]

\* finalAmount and finalNote of handleSubmit. Math.round(x) is floor(x + 1/2);
\* "orig" stands for the two-character label of the suffix in the source.
Converted(amount, note, currency, rate) ==
    IF currency # "TWD" /\ rate # Null
    THEN LET suffix == " (orig: " \o currency \o " " \o ToString(amount) \o ")"
         IN [amount |-> (2 * amount * rate[1].num + rate[1].den) \div (2 * rate[1].den),
             note |-> IF note # EmptyString THEN note \o suffix ELSE suffix]
    ELSE [amount |-> amount, note |-> note]

\* handleSubmit up to its await of api.addTransaction(newTx)
handleSubmit ==
    /\ activeTab = "EXPENSE"
    /\ MayStart(1)
    /\ ~form.loading
    /\ form.amount # <<>>
    /\ \E fate \in IF form.currency = "TWD" THEN {"ok"} ELSE RateFates,
          net \in AppFates,
          id \in FreshIds(transactions, StoredTransactions) :
          LET rate == getExchangeRate(form.currency, "TWD", fate)
              final == Converted(ParseNumber(form.amount), form.note, form.currency, rate)
              newTx == [id |-> id, date |-> DateString(2024, 1, 15), type |-> EXPENSE,
                        categoryId |-> "cat_1", amount |-> final.amount, note |-> final.note]
              r == addTransaction(Env, newTx, net)
          IN /\ Stored("addTransaction", newTx, r)
             /\ task' = Awaiting("handleSubmit", r, rate = Null, EmptyString)
    /\ form' = [form EXCEPT !.loading = TRUE]
    /\ UNCHANGED <<selectedMonth, lockVars, dataVars, activeTab, initialExpenseNote,
                   modalOpen, processingTodo, activeId, refreshes>>

\* handleSubmit after the await: on success the form is reset and
\* onTransactionChange() is called; a rejection ends the handler at the await
handleSubmitResumed ==
    /\ task.name = "handleSubmit"
    /\ task' = Idle
    /\ IF task.settled = "resolved"
       THEN IF task.success
            THEN /\ form' = ExpenseViewMounted(EmptyString)
                 /\ initialExpenseNote' = EmptyString
                 /\ refreshes' = refreshes + 1
            ELSE /\ form' = [form EXCEPT !.loading = FALSE]
                 /\ UNCHANGED <<initialExpenseNote, refreshes>>
       ELSE UNCHANGED <<form, initialExpenseNote, refreshes>>
    /\ UNCHANGED <<storeVars, selectedMonth, lockVars, dataVars, activeTab,
                   modalOpen, processingTodo, activeId>>

\* ExpenseView.handleDelete: window.confirm, then api.deleteTransaction(id)
Expense_handleDelete ==
    /\ activeTab = "EXPENSE"
    /\ MayStart(0)
    /\ \E i \in 1..Len(transactions), confirmed \in BOOLEAN, net \in AppFates :
          IF confirmed
          THEN LET r == deleteTransaction(Env, transactions[i].id, net)
               IN /\ Stored("deleteTransaction", transactions[i].id, r)
                  /\ task' = Awaiting("ExpenseView.handleDelete", r, TRUE, EmptyString)
          ELSE /\ task' = [Idle EXCEPT !.name = "ExpenseView.handleDelete"]
               /\ UNCHANGED storeVars
    /\ UNCHANGED <<selectedMonth, lockVars, dataVars, uiVars, refreshes>>

\* ExpenseView.handleDelete after the await, or after the user declined
Expense_handleDeleteResumed ==
    /\ task.name = "ExpenseView.handleDelete"
    /\ task' = Idle
    /\ refreshes' = IF task.success THEN refreshes + 1 ELSE refreshes
    /\ UNCHANGED <<storeVars, selectedMonth, lockVars, dataVars, uiVars>>

(* TodoView *)

DragDates == {"2024-01-21"}   \* the day containers an item is dragged over

\* { ...t, [f]: v }
With(t, f, v) == [g \in (DOMAIN t) \cup {f} |-> IF g = f THEN v ELSE t[g]]

\* items.map(t => t.id === id ? { ...t, [f]: v } : t)
MapItem(list, id, f, v) ==
    [i \in 1..Len(list) |-> IF list[i].id = id THEN With(list[i], f, v) ELSE list[i]]

\* arrayMove of @dnd-kit/sortable: the element at index from is moved to index to
arrayMove(list, from, to) ==
    LET rest == SubSeq(list, 1, from - 1) \o SubSeq(list, from + 1, Len(list))
    IN SubSeq(rest, 1, to - 1) \o <<list[from]>> \o SubSeq(rest, to, Len(rest))

\* the user works in the list: TodoView is shown, its modal is closed and no
\* handler is running
InList ==
    /\ activeTab = "TODO"
    /\ ~modalOpen
    /\ task = Idle
    /\ refreshes < MaxPending

\* handleCreateTodo(text, date) up to its await of api.addTodo(newTodo)
handleCreateTodo ==
    /\ InList
    /\ activeId = Null
    /\ Len(StoredTransactions) + Len(StoredTodos) < MaxEntries
    /\ Len(items) < MaxEntries
    /\ \E id \in FreshIds(items, StoredTodos), net \in AppFates :
          LET newTodo == [Todo("1", FALSE) EXCEPT !.id = id]
              r == addTodo(Env, newTodo, net)
          IN /\ items' = <<newTodo>> \o items
             /\ Stored("addTodo", newTodo, r)
             /\ task' = Awaiting("handleCreateTodo", r, FALSE, EmptyString)
    /\ UNCHANGED <<selectedMonth, lockVars, transactions, dataTodos, dataCategories,
                   uiVars, refreshes>>

\* TodoView.handleDelete(id) up to its await of api.deleteTodo(id); the
\* handler asks nothing (flag: the user has confirmed)
Todo_handleDelete ==
    /\ InList
    /\ activeId = Null
    /\ \E i \in 1..Len(items), net \in AppFates :
          LET r == deleteTodo(Env, items[i].id, net)
          IN /\ items' = SelectSeq(items, LAMBDA t : t.id # items[i].id)
             /\ Stored("deleteTodo", items[i].id, r)
             /\ task' = Awaiting("TodoView.handleDelete", r, FALSE, EmptyString)
    /\ UNCHANGED <<selectedMonth, lockVars, transactions, dataTodos, dataCategories,
                   uiVars, refreshes>>

\* updateLocalAndRemote(newItems) up to its await of api.reorderTodos(newItems)
updateLocalAndRemote(name, newItems, arg) ==
    /\ items' = newItems
    /\ \E net \in AppFates :
          LET r == reorderTodos(Env, newItems, net)
          IN /\ Stored("reorderTodos", newItems, r)
             /\ task' = Awaiting(name, r, TRUE, arg)

\* handleToggle(todo): an uncompleted todo opens the modal, a completed one is
\* toggled back through updateLocalAndRemote (its isCompletedAt: undefined is a
\* key JSON.stringify leaves out)
handleToggle ==
    /\ InList
    /\ activeId = Null
    /\ \E i \in 1..Len(items) :
          LET todo == items[i]
          IN IF ~todo.isCompleted
             THEN /\ processingTodo' = Some(todo)
                  /\ modalOpen' = TRUE
                  /\ UNCHANGED <<storeVars, items, task>>
             ELSE /\ updateLocalAndRemote("handleToggle",
                                          MapItem(items, todo.id, "isCompleted", FALSE),
                                          EmptyString)
                  /\ UNCHANGED <<processingTodo, modalOpen>>
    /\ UNCHANGED <<selectedMonth, lockVars, transactions, dataTodos, dataCategories,
                   activeTab, initialExpenseNote, form, activeId, refreshes>>

\* handleModalConfirm(addToExpense) up to its await of api.toggleTodo(id, true):
\* the backdrop and the first button pass false, the second button true
handleModalConfirm ==
    /\ activeTab = "TODO"
    /\ modalOpen
    /\ task = Idle
    /\ refreshes < MaxPending
    /\ processingTodo # Null
    /\ \E addToExpense \in BOOLEAN, net \in AppFates :
          LET r == toggleTodo(Env, processingTodo[1].id, TRUE, net)
          IN /\ items' = MapItem(items, processingTodo[1].id, "isCompleted", TRUE)
             /\ Stored("toggleTodo", [id |-> processingTodo[1].id, isCompleted |-> TRUE], r)
             /\ task' = Awaiting("handleModalConfirm", r, addToExpense, processingTodo[1].text)
    /\ UNCHANGED <<selectedMonth, lockVars, transactions, dataTodos, dataCategories,
                   uiVars, refreshes>>

\* handleModalConfirm after the await: onTodosChange(); setModalOpen(false);
\* if (addToExpense) onNavigateToExpense(processingTodo.text), which is App's
\* handleNavigateToExpense; setProcessingTodo(null)
handleModalConfirmResumed ==
    /\ task.name = "handleModalConfirm"
    /\ task' = Idle
    /\ IF task.settled = "resolved"
       THEN /\ refreshes' = refreshes + 1
            /\ IF task.flag
               THEN /\ initialExpenseNote' = task.arg
                    /\ Mount("EXPENSE", task.arg)
               ELSE /\ modalOpen' = FALSE
                    /\ processingTodo' = Null
                    /\ UNCHANGED <<initialExpenseNote, activeTab, form, items, activeId>>
       ELSE UNCHANGED <<refreshes, uiVars, items>>
    /\ UNCHANGED <<storeVars, selectedMonth, lockVars, transactions, dataTodos,
                   dataCategories>>

\* handleDragStart: setActiveId(event.active.id)
handleDragStart ==
    /\ InList
    /\ activeId = Null
    /\ \E i \in 1..Len(items) : activeId' = Some(items[i].id)
    /\ UNCHANGED <<storeVars, selectedMonth, lockVars, dataVars, activeTab,
                   initialExpenseNote, form, modalOpen, processingTodo, task, refreshes>>

\* handleDragOver with over the day container 'date-' + newDate
handleDragOver ==
    /\ InList
    /\ activeId # Null
    /\ \E newDate \in DragDates, i \in 1..Len(items) :
          /\ items[i].id = activeId[1]
          /\ Field(items[i], "targetDate") # newDate
          /\ items' = MapItem(items, activeId[1], "targetDate", newDate)
    /\ UNCHANGED <<storeVars, selectedMonth, lockVars, transactions, dataTodos,
                   dataCategories, uiVars, task, refreshes>>

\* what the dragged item is dropped on: nothing, another item, a day container
DropTargets ==
    {[kind |-> "none", id |-> EmptyString]}
        \cup {[kind |-> "item", id |-> items[i].id] : i \in 1..Len(items)}
        \cup {[kind |-> "date", id |-> d] : d \in DragDates}

\* over.id
OverId(over) == IF over.kind = "date" THEN "date-" \o over.id ELSE over.id

\* a slip: the dragged item stays where it was
handleDragEnd_stay ==
    /\ InList
    /\ activeId # Null
    /\ activeId' = Null
    /\ \E over \in DropTargets :
          LET id == activeId[1]
              oldIndex == FindIndex(items, LAMBDA t : t.id = id)
              newIndex == FindIndex(items, LAMBDA t : t.id = over.id)
              ended == [Idle EXCEPT !.name = "handleDragEnd", !.arg = OverId(over)]
          IN IF over.kind = "item" /\ over.id # id /\ oldIndex # 0 /\ newIndex # 0
             THEN LET date == Field(items[newIndex], "targetDate")
                  IN updateLocalAndRemote("handleDragEnd",
                         IF Field(items[oldIndex], "targetDate") # date
                         THEN MapItem(items, id, "targetDate", date)
                         ELSE items,
                         OverId(over))
             ELSE IF /\ over.kind = "date"
                     /\ oldIndex # 0
                     /\ Field(items[oldIndex], "targetDate") # over.id
             THEN updateLocalAndRemote("handleDragEnd",
                                       MapItem(items, id, "targetDate", over.id),
                                       OverId(over))
             ELSE /\ task' = ended
                  /\ UNCHANGED <<storeVars, items>>
    /\ UNCHANGED <<selectedMonth, lockVars, transactions, dataTodos, dataCategories,
                   activeTab, initialExpenseNote, form, modalOpen, processingTodo, refreshes>>

\* handleDragEnd up to the await in updateLocalAndRemote, if it gets there
handleDragEnd ==
    /\ InList
    /\ activeId # Null
    /\ activeId' = Null
    /\ \E over \in DropTargets :
          LET id == activeId[1]
              oldIndex == FindIndex(items, LAMBDA t : t.id = id)
              newIndex == FindIndex(items, LAMBDA t : t.id = over.id)
              ended == [Idle EXCEPT !.name = "handleDragEnd", !.arg = OverId(over)]
          IN IF over.kind = "item" /\ over.id # id /\ oldIndex # 0 /\ newIndex # 0
             THEN LET moved == arrayMove(items, oldIndex, newIndex)
                      date == Field(items[newIndex], "targetDate")
                  IN updateLocalAndRemote("handleDragEnd",
                         IF Field(items[oldIndex], "targetDate") # date
                         THEN MapItem(moved, id, "targetDate", date)
                         ELSE moved,
                         OverId(over))
             ELSE IF /\ over.kind = "date"
                     /\ oldIndex # 0
                     /\ Field(items[oldIndex], "targetDate") # over.id
             THEN updateLocalAndRemote("handleDragEnd",
                                       MapItem(items, id, "targetDate", over.id),
                                       OverId(over))
             ELSE /\ task' = ended
                  /\ UNCHANGED <<storeVars, items>>
    /\ UNCHANGED <<selectedMonth, lockVars, transactions, dataTodos, dataCategories,
                   activeTab, initialExpenseNote, form, modalOpen, processingTodo, refreshes>>

\* a TodoView handler after its await: onTodosChange(). A rejected call ends
\* the handler at the await; handleDragEnd may have ended without a call.
TodoHandlerResumed ==
    /\ task.name \in {"handleCreateTodo", "TodoView.handleDelete", "handleToggle",
                      "handleDragEnd"}
    /\ task' = Idle
    /\ refreshes' = IF task.settled = "resolved" THEN refreshes + 1 ELSE refreshes
    /\ UNCHANGED <<storeVars, selectedMonth, lockVars, dataVars, uiVars>>

(* The application as a state machine *)

\* App is mounted: its useEffect has called refreshData, which has not completed
InitMounted ==
    /\ gasUrl \in {Null, Some(Url)}
    /\ localData = Null
    /\ categoriesCache = Null
    /\ deployed \in IF Truthy(gasUrl) THEN Backends ELSE {"settings"}
    /\ doc = setup(deployed)
    /\ call = NoCall
    /\ InitView
    /\ InitLock
    /\ InitApp
    /\ refreshes = 1

\* the user keeps the books: ExpenseView is shown
NextExpenseView ==
    \/ NavButton({"EXPENSE", "SETTINGS"})
    \/ Refresh
    \/ FillForm
    \/ handleSubmit
    \/ handleSubmitResumed
    \/ Expense_handleDelete
    \/ Expense_handleDeleteResumed

SpecExpenseView == InitMounted /\ [][NextExpenseView]_vars

\* the same, with what the browser guarantees: a settled promise resumes the
\* handler awaiting it and an issued refreshData completes; what the user
\* does next is up to the user
SpecExpenseViewLive ==
    /\ InitMounted
    /\ [][NextExpenseView]_vars
    /\ WF_vars(handleSubmitResumed)
    /\ WF_vars(Expense_handleDeleteResumed)
    /\ WF_vars(Refresh)

\* the user works through the todo list: TodoView is shown, and ExpenseView
\* when a completed todo is taken there
NextTodoView ==
    \/ NavButton({"EXPENSE", "TODO"})
    \/ Refresh
    \/ handleCreateTodo
    \/ Todo_handleDelete
    \/ handleToggle
    \/ handleModalConfirm
    \/ handleModalConfirmResumed
    \/ handleDragStart
    \/ handleDragOver
    \/ handleDragEnd
    \/ TodoHandlerResumed

SpecTodoView == InitMounted /\ [][NextTodoView]_vars

\* the user only creates todos and ticks them
NextTodoToggle ==
    \/ NavButton({"EXPENSE", "TODO"})
    \/ Refresh
    \/ handleCreateTodo
    \/ handleToggle
    \/ handleModalConfirm
    \/ handleModalConfirmResumed
    \/ TodoHandlerResumed

SpecTodoToggle == InitMounted /\ [][NextTodoToggle]_vars

-----------------------------------------------------------------------------
(* Dragging in a list of up to three todos: TodoView shows what the store   *)
(* holds and the user drags items onto each other and onto day containers, *)
(* up to the refreshData that a persisted drag asks for.                   *)

DragIds == {"1", "2", "3"}

\* the todos the store holds: not completed, one per id
DragLists ==
    {l \in SeqsUpTo({Todo(id, FALSE) : id \in DragIds}, Cardinality(DragIds)) :
        \A i, j \in 1..Len(l) : l[i].id = l[j].id => i = j}

\* App has fetched the stored todos and the user has opened TodoView
InitDrag ==
    /\ gasUrl \in {Null, Some(Url)}
    /\ categoriesCache = Null
    /\ deployed = "settings"
    /\ \E l \in DragLists :
          IF Truthy(gasUrl)
          THEN localData = Null /\ doc = Dbc_updateAllTodos(setup(deployed), l)
          ELSE /\ localData = Some(JsonAppData([initial EXCEPT !.todos = l]))
               /\ doc = setup(deployed)
    /\ \E r \in {fetchData(Env, "ok")} :
          /\ call = [op |-> "fetchData", arg |-> Null, settled |-> r.settled,
                     value |-> r.value, requests |-> r.requests]
          /\ transactions = r.value.data.transactions
          /\ dataTodos = r.value.data.todos
          /\ dataCategories = r.value.data.categories
          /\ items = r.value.data.todos
    /\ selectedMonth = MonthString(2024, 1)
    /\ InitLock
    /\ activeTab = "TODO"
    /\ initialExpenseNote = EmptyString
    /\ form = [amount |-> <<>>, note |-> EmptyString, currency |-> "TWD", loading |-> FALSE]
    /\ modalOpen = FALSE
    /\ processingTodo = Null
    /\ activeId = Null
    /\ task = Idle
    /\ refreshes = 0

NextDrag ==
    \/ handleDragStart
    \/ handleDragOver
    \/ handleDragEnd
    \/ TodoHandlerResumed

SpecDrag == InitDrag /\ [][NextDrag]_vars

-----------------------------------------------------------------------------
(* TodoView over the remote endpoint with its requests in flight: a handler *)
(* sends its request and awaits the answer, the user goes on meanwhile, and *)
(* the executions of handleRequest take the script lock in any order. No   *)
(* execution holds the lock for ten seconds here: every tryLock returns    *)
(* true. The runs end before the refreshData the handlers ask for.         *)

\* the todos a request that has been sent and not yet answered carries
InFlight(r) ==
    IF executions[r].pc = "idle" THEN <<>>
    ELSE IF ActionOf(executions[r].e) = "ADD_TODO"
    THEN <<executions[r].e.postData[1].payload>>
    ELSE executions[r].e.postData[1].payload

\* the ids in use: shown, stored, or on their way
UsedIds ==
    {items[i].id : i \in 1..Len(items)}
        \cup {StoredId(StoredTodos[i]) : i \in 1..Len(StoredTodos)}
        \cup UNION {{InFlight(r)[i].id : i \in 1..Len(InFlight(r))} : r \in Requests}

\* Date.now().toString(): an id that is not in use (the least such number)
NewId ==
    LET free == {n \in 1..(Cardinality(UsedIds) + 1) : ToString(n) \notin UsedIds}
    IN ToString(CHOOSE n \in free : \A m \in free : n <= m)

\* fetch(url, {method: 'POST', body}): the request is on its way to execution r
Sent(r, action, payload) ==
    /\ executions[r].pc = "idle"
    /\ executions' = [executions EXCEPT ![r] =
                         [pc |-> "tryLock", e |-> PostRequest(action, payload)]]

\* handleCreateTodo up to the fetch of api.addTodo(newTodo)
handleCreateTodo_fetch(r) ==
    /\ activeTab = "TODO"
    /\ activeId = Null
    /\ refreshes < MaxPending
    /\ Len(items) <= MaxEntries
    /\ LET newTodo == [Todo("1", FALSE) EXCEPT !.id = NewId]
       IN /\ items' = <<newTodo>> \o items
          /\ Sent(r, "ADD_TODO", JsonTodo(newTodo))
    /\ UNCHANGED <<storeVars, viewVars, lock, dataTodos, dataCategories, uiVars, task,
                   refreshes>>

\* handleDragEnd up to the fetch of api.reorderTodos(newItems), if it gets there
handleDragEnd_fetch(r) ==
    /\ activeTab = "TODO"
    /\ activeId # Null
    /\ activeId' = Null
    /\ \E over \in DropTargets :
          LET id == activeId[1]
              oldIndex == FindIndex(items, LAMBDA t : t.id = id)
              newIndex == FindIndex(items, LAMBDA t : t.id = over.id)
          IN IF over.kind = "item" /\ over.id # id /\ oldIndex # 0 /\ newIndex # 0
             THEN LET moved == arrayMove(items, oldIndex, newIndex)
                      date == Field(items[newIndex], "targetDate")
                      newItems == IF Field(items[oldIndex], "targetDate") # date
                                  THEN MapItem(moved, id, "targetDate", date)
                                  ELSE moved
                  IN /\ items' = newItems
                     /\ Sent(r, "REORDER_TODOS", JsonTodos(newItems))
             ELSE IF /\ over.kind = "date"
                     /\ oldIndex # 0
                     /\ Field(items[oldIndex], "targetDate") # over.id
             THEN LET newItems == MapItem(items, id, "targetDate", over.id)
                  IN /\ items' = newItems
                     /\ Sent(r, "REORDER_TODOS", JsonTodos(newItems))
             ELSE UNCHANGED <<items, executions>>
    /\ UNCHANGED <<storeVars, viewVars, lock, dataTodos, dataCategories, activeTab,
                   initialExpenseNote, form, modalOpen, processingTodo, task, refreshes>>

\* finally { lock.releaseLock() }, the answer is sent, and the handler that
\* awaited it goes on: onTodosChange()
Answered(r) ==
    /\ executions[r].pc = "finally"
    /\ lock' = IF lock = Some(r) THEN Null ELSE lock
    /\ executions' = [executions EXCEPT ![r] = [pc |-> "idle"]]
    /\ refreshes' = refreshes + 1
    /\ UNCHANGED <<storeVars, viewVars, dataTodos, dataCategories, uiVars, items, task>>

\* App has fetched the empty tables and the user has opened TodoView
InitFlight ==
    /\ gasUrl = Some(Url)
    /\ localData = Null
    /\ categoriesCache = Null
    /\ deployed \in Backends
    /\ doc = setup(deployed)
    /\ call = NoCall
    /\ InitView
    /\ dataTodos = <<>>
    /\ dataCategories = DEFAULT_CATEGORIES
    /\ activeTab = "TODO"
    /\ initialExpenseNote = EmptyString
    /\ form = [amount |-> <<>>, note |-> EmptyString, currency |-> "TWD", loading |-> FALSE]
    /\ items = <<>>
    /\ modalOpen = FALSE
    /\ processingTodo = Null
    /\ activeId = Null
    /\ task = Idle
    /\ refreshes = 0
    /\ lock = Null
    /\ executions = [r \in Requests |-> [pc |-> "idle"]]

NextFlight ==
    \/ handleDragStart
    \/ \E r \in Requests :
          \/ handleCreateTodo_fetch(r)
          \/ handleDragEnd_fetch(r)
          \/ TryLockAcquired(r)
          \/ TryBlock(r)
          \/ Answered(r)

SpecFlight == InitFlight /\ [][NextFlight]_vars

-----------------------------------------------------------------------------
(* Importing the local data into the cloud: the application is used in      *)
(* local mode, then a Script URL is saved in Settings and syncLocalToCloud *)
(* is called.                                                              *)

\* the local data is worked on while no URL is configured
LocalUse ==
    /\ ~Truthy(gasUrl)
    /\ (AddTransaction \/ AddTodo \/ ToggleTodo)

\* Settings.handleSave: localStorage.setItem(STORAGE_KEYS.GAS_URL, gasUrl);
\* window.location.reload()
handleSave ==
    /\ ~Truthy(gasUrl)
    /\ gasUrl' = Some(Url)
    /\ call' = NoCall
    /\ UNCHANGED <<localData, categoriesCache, deployed, doc, viewVars, lockVars, appVars>>

\* the fates of the requests of one syncLocalToCloud: answered, not sent, or
\* answered by the script's catch block
SyncFates ==
    IF Truthy(gasUrl)
    THEN {[todos |-> n, transactions |-> f] :
             n \in {"ok", "unreachable", "threw"},
             f \in [1..Len(getLocalData(Env).transactions) ->
                       {"ok", "unreachable", "threw"}]}
    ELSE {[todos |-> "ok", transactions |-> <<>>]}

\* Settings.handleSync -> api.syncLocalToCloud(), once with a configured URL
SyncLocalToCloud ==
    /\ Truthy(gasUrl) => call.op # "syncLocalToCloud"
    /\ \E fates \in SyncFates :
          \E r \in {syncLocalToCloud(Env, fates)} :
             /\ Len(r.env.doc.Transactions) + Len(r.env.doc.Todos) - 2 <= MaxRecords
             /\ Settle("syncLocalToCloud", fates, r)

InitSync ==
    /\ gasUrl \in {Null, Some(EmptyString)}
    /\ localData = Null
    /\ categoriesCache = Null
    /\ deployed \in Backends
    /\ doc = setup(deployed)
    /\ call = NoCall
    /\ InitView
    /\ InitUnmounted

NextSync ==
    \/ LocalUse
    \/ handleSave
    \/ SyncLocalToCloud

SpecSync == InitSync /\ [][NextSync]_vars

-----------------------------------------------------------------------------
(* Properties *)

SameTransaction(a, b) == \A f \in TxFields : Field(a, f) = Field(b, f)
\* equal field by field; a todo without a targetDate and one whose targetDate
\* is '' are taken to be equal, which can only favour the code
SameTodo(a, b) ==
    /\ \A f \in TodoFields \ {"targetDate"} : Field(a, f) = Field(b, f)
    /\ OrEmpty(Field(a, "targetDate")) = OrEmpty(Field(b, "targetDate"))
SameTodos(k, l) == Len(k) = Len(l) /\ \A i \in 1..Len(k) : SameTodo(k[i], l[i])
SameTransactions(k, l) == Len(k) = Len(l) /\ \A i \in 1..Len(k) : SameTransaction(k[i], l[i])

\* the promise resolved to a response whose success flag is true
Succeeded(c) ==
    c.settled = "resolved" /\ "success" \in DOMAIN c.value /\ c.value.success

\* the data the next fetchData returns when its request, if any, is answered
Fetched == fetchData(Env, "ok").value.data

StoreOps ==
    {"addTransaction", "deleteTransaction", "addTodo", "toggleTodo", "deleteTodo", "reorderTodos"}
Mutations == StoreOps \cup {"saveCategories"}

\* C1: after addTransaction(t) has completed, in local and in remote mode, the
\* next fetchData returns a transactions list holding a record equal to t in
\* every field.
C1_AddTransactionThenFetch ==
    (call.op = "addTransaction" /\ Succeeded(call)) =>
        \E i \in 1..Len(Fetched.transactions) :
            SameTransaction(Fetched.transactions[i], call.arg)

\* a remote addTransaction succeeded on a sheet that already held a row: the
\* fetch reverses the rows and the added record comes first
C1_Witness ==
    /\ call.op = "addTransaction" /\ Succeeded(call)
    /\ Truthy(gasUrl)
    /\ Len(Fetched.transactions) >= 2
    /\ SameTransaction(Fetched.transactions[1], call.arg)
    /\ ~SameTransaction(Fetched.transactions[2], call.arg)

\* C2: after addTodo(d) has completed, with or without a targetDate, in local
\* and in remote mode, the next fetchData returns a todos list holding a record
\* equal to d in every field.
C2_AddTodoThenFetch ==
    (call.op = "addTodo" /\ Succeeded(call)) =>
        \E i \in 1..Len(Fetched.todos) : SameTodo(Fetched.todos[i], call.arg)

\* C3: after deleteTransaction(id) (deleteTodo(id)) has completed no record
\* with that id remains in its list, the records with another id are all
\* still there, unchanged and in the same order, and the other list and the
\* categories are unchanged.
C3_DeleteRemovesExactlyThatId ==
    [][ /\ (call'.op = "deleteTransaction" /\ Succeeded(call')) =>
            /\ Fetched'.transactions =
                  SelectSeq(Fetched.transactions, LAMBDA t : t.id # call'.arg)
            /\ Fetched'.todos = Fetched.todos
            /\ Fetched'.categories = Fetched.categories
        /\ (call'.op = "deleteTodo" /\ Succeeded(call')) =>
            /\ Fetched'.todos = SelectSeq(Fetched.todos, LAMBDA t : t.id # call'.arg)
            /\ Fetched'.transactions = Fetched.transactions
            /\ Fetched'.categories = Fetched.categories ]_vars

\* C4: in every store state, for every todo id and boolean v, toggleTodo(id, v)
\* applied twice leaves the store that toggleTodo(id, v) applied once leaves,
\* in local and in remote mode.
C4_ToggleTwiceIsToggleOnce ==
    \A id \in TodoIds, v \in BOOLEAN :
        LET once == toggleTodo(Env, id, v, "ok").env
        IN toggleTodo(once, id, v, "ok").env = once

\* a remote toggleTodo(id, true) has just completed a stored todo
C4_Witness ==
    /\ call.op = "toggleTodo" /\ Succeeded(call)
    /\ Truthy(gasUrl)
    /\ call.arg.isCompleted
    /\ \E i \in 2..Len(doc.Todos) :
          doc.Todos[i][1] = call.arg.id /\ doc.Todos[i][3] = BooleanCell(TRUE)
    /\ \E i \in 2..Len(doc.Todos) : doc.Todos[i][3] = BooleanCell(FALSE)

\* C5: after reorderTodos(L) has completed (its request, if any, answered),
\* the next fetchData returns todos equal to L, element by element.
C5_ReorderThenFetch ==
    ( /\ call.op = "reorderTodos"
      /\ call.settled = "resolved"
      /\ Field(call.value, "message") # "Cloud reorder failed" ) =>
        SameTodos(Fetched.todos, call.arg)

-----------------------------------------------------------------------------
\* the date lies in the month: same year and same month number
FallsInMonth(date, month) ==
    /\ Len(date) = 10
    /\ ParseNumber(SubSeq(date, 1, 4)) = ParseNumber(SplitDash(month)[1])
    /\ ParseNumber(SubSeq(date, 6, 7)) = ParseNumber(SplitDash(month)[2])

RECURSIVE MonthTotal(_, _, _)
MonthTotal(txs, month, type) ==
    IF txs = <<>> THEN 0
    ELSE MonthTotal(Tail(txs), month, type)
         + (IF Head(txs).type = type /\ FallsInMonth(Head(txs).date, month)
            THEN Head(txs).amount ELSE 0)

\* C6: for every transaction list and selected month M, summary.income
\* (summary.expense) is the sum of the amounts of the income (expense)
\* transactions dated in M, and summary.balance is their difference.
C6_SummaryIsMonthTotal ==
    /\ summary.income = MonthTotal(transactions, selectedMonth, INCOME)
    /\ summary.expense = MonthTotal(transactions, selectedMonth, EXPENSE)
    /\ summary.balance = MonthTotal(transactions, selectedMonth, INCOME)
                          - MonthTotal(transactions, selectedMonth, EXPENSE)

\* the view was moved from December 2024 into January 2025, and the list holds
\* an income and an expense of that month and a transaction of another January
C6_Witness ==
    /\ selectedMonth = MonthString(2025, 1)
    /\ summary.income > 0
    /\ summary.expense > 0
    /\ \E i \in 1..Len(transactions) :
          /\ Len(transactions[i].date) = 10
          /\ SubSeq(transactions[i].date, 5, 7) = SubSeq(selectedMonth, 5, 7)
          /\ ~FallsInMonth(transactions[i].date, selectedMonth)

-----------------------------------------------------------------------------
\* C7: every mutation of the data service resolves to a response carrying a
\* success flag, also when the HTTP request fails or the answer cannot be
\* parsed.
C7_MutationsAlwaysResolve ==
    call.op \in Mutations =>
        call.settled = "resolved" /\ "success" \in DOMAIN call.value

\* C8: with a URL configured, add/delete/toggle/reorder leave the local blob
\* unchanged and issue exactly one HTTP request; with none configured they
\* issue no request and change nothing but the local blob.
C8_BackendChosenByUrl ==
    [][ call'.op \in StoreOps =>
          IF Truthy(gasUrl)
          THEN localData' = localData /\ Len(call'.requests) = 1
          ELSE /\ Len(call'.requests) = 0
               /\ doc' = doc
               /\ categoriesCache' = categoriesCache ]_vars

\* a remote reorderTodos has rewritten the Todos sheet and the blob is as it was
C8_Witness ==
    /\ call.op = "reorderTodos" /\ Succeeded(call)
    /\ Truthy(gasUrl)
    /\ Len(call.requests) = 1
    /\ Len(doc.Todos) = 3
    /\ localData = Null

\* C9: from empty stores, after the same sequence of calls, fetchData without
\* a URL and fetchData with a URL return the same transactions and the same
\* todos in the same order.
C9_UniformAcrossBackends ==
    LET a == fetchData(EnvA, "ok").value.data
        b == fetchData(EnvB, "ok").value.data
    IN /\ SameTransactions(a.transactions, b.transactions)
       /\ SameTodos(a.todos, b.todos)

\* C10: the endpoint answers a well-formed request of each of the seven
\* actions with success = true.
C10_EndpointAcceptsSevenActions ==
    /\ handleRequest(deployed, GetRequest("GET_DATA"), doc).result.success
    /\ \A t \in TxInputs :
          handleRequest(deployed, PostRequest("ADD_TRANSACTION", t), doc).result.success
    /\ \A id \in TxIds :
          handleRequest(deployed, PostRequest("DELETE_TRANSACTION", [id |-> id]), doc).result.success
    /\ \A t \in TodoInputs :
          handleRequest(deployed, PostRequest("ADD_TODO", JsonTodo(t)), doc).result.success
    /\ \A id \in TodoIds, v \in BOOLEAN :
          handleRequest(deployed, PostRequest("TOGGLE_TODO", [id |-> id, isCompleted |-> v]),
                        doc).result.success
    /\ \A id \in TodoIds :
          handleRequest(deployed, PostRequest("DELETE_TODO", [id |-> id]), doc).result.success
    /\ \A l \in TodoLists :
          handleRequest(deployed, PostRequest("REORDER_TODOS", JsonTodos(l)), doc).result.success

-----------------------------------------------------------------------------
\* C11: at most one execution of handleRequest is inside the body that reads
\* and writes the tables, also when a tryLock timed out while another execution
\* held the lock.
C11_RequestsAreSerialized ==
    Cardinality(InBody) <= 1

-----------------------------------------------------------------------------
\* s without the elements at the positions in K
Without(s, K) ==
    LET idx == SelectSeq([i \in 1..Len(s) |-> i], LAMBDA i : i \notin K)
    IN [j \in 1..Len(idx) |-> s[idx[j]]]

\* C14: the stored transactions (records of the blob, rows of the table) change
\* only by addTransaction, which adds one record holding the fields given and
\* leaves the others as they are, and by deleteTransaction, which only removes
\* records of the given id; no other operation changes them.
C14_TransactionsAreImmutable ==
    [][ \/ StoredTransactions' = StoredTransactions
        \/ /\ call'.op = "addTransaction"
           /\ Len(StoredTransactions') = Len(StoredTransactions) + 1
           /\ \E t \in {Fetched'.transactions[1]} : SameTransaction(t, call'.arg)
           /\ IF Truthy(gasUrl)
              THEN SubSeq(StoredTransactions', 1, Len(StoredTransactions)) = StoredTransactions
              ELSE Tail(StoredTransactions') = StoredTransactions
        \/ /\ call'.op = "deleteTransaction"
           /\ \E K \in SUBSET {i \in 1..Len(StoredTransactions) :
                                 StoredId(StoredTransactions[i]) = call'.arg} :
                 StoredTransactions' = Without(StoredTransactions, K) ]_vars

\* a remote reorderTodos has rewritten the Todos sheet beside two stored
\* transactions
C14_Witness ==
    /\ call.op = "reorderTodos" /\ Succeeded(call)
    /\ Truthy(gasUrl)
    /\ Len(Fetched.transactions) = 2
    /\ Len(Fetched.todos) = 1

\* C15: saveCategories with a list that omits a category leaves the stored
\* transactions as they were, those filed under that category included.
C15_RemovingACategoryDoesNotCascade ==
    [][ call'.op = "saveCategories" =>
            /\ StoredTransactions' = StoredTransactions
            /\ doc' = doc ]_vars

\* the saved list omits the category of a stored transaction
C15_Witness ==
    /\ call.op = "saveCategories" /\ Succeeded(call)
    /\ \E i \in 1..Len(Fetched.transactions) :
          \A j \in 1..Len(call.arg) : call.arg[j].id # Fetched.transactions[i].categoryId

-----------------------------------------------------------------------------
\* C20: a request whose action is none of the known actions is answered with
\* {success: false, message: 'Unknown Action'} and leaves the Transactions and
\* Todos tables as they were.
C20_UnknownActionIsRefused ==
    [][ \A r \in Requests :
          ( /\ executions[r].pc = "try"
            /\ executions'[r].pc = "finally"
            /\ ActionOf(executions[r].e) \notin Actions ) =>
              /\ doc' = doc
              /\ executions'[r].answer = [success |-> FALSE, message |-> "Unknown Action"] ]_vars

\* a request with an unknown action has been answered while the tables hold rows
C20_Witness ==
    \E r \in Requests :
        /\ executions[r].pc = "finally"
        /\ ActionOf(executions[r].e) = "SAVE_CATEGORIES"
        /\ executions[r].answer.success = FALSE
        /\ Len(doc.Transactions) > 1
        /\ Len(doc.Todos) > 1

\* C12 (refuted): whenever a view handler's call of a mutation has resolved,
\* reporting success or failure, the handler issues a refreshData before it ends.
C12_MutationsAreFollowedByARefetch ==
    [][ task.name # "idle" /\ task.settled = "resolved" /\ task'.name = "idle"
            => refreshes' = refreshes + 1 ]_vars

\* handleSubmit has started with a foreign currency and no rate was obtained
LookupFailed ==
    /\ task.name = "idle" /\ task'.name = "handleSubmit"
    /\ form.currency # "TWD"
    /\ task'.flag

\* C13: when a foreign currency is selected and getExchangeRate gives no rate,
\* handleSubmit calls addTransaction with the amount and the note as entered,
\* and when the call succeeds the newest stored transaction has that amount and
\* that note.
C13_FailedLookupStoresTheOriginalAmount ==
    [][ LookupFailed =>
            /\ call'.op = "addTransaction"
            /\ call'.arg.amount = ParseNumber(form.amount)
            /\ call'.arg.note = form.note
            /\ Succeeded(call') =>
                  \E t \in {Fetched'.transactions[1]} :
                      /\ t.amount = ParseNumber(form.amount)
                      /\ t.note = form.note
                      /\ t.id = call'.arg.id ]_vars

\* a transaction entered in USD is shown with the entered amount and note: its
\* lookup failed, it was stored and the list was fetched again
C13_Witness ==
    /\ task = Idle
    /\ Len(transactions) = 1
    /\ transactions[1].amount = 8
    /\ transactions[1].note = "tea"

\* C18: a remote fetchData that fails, by a network error, an unparsable
\* response or a response with success = false, resolves to {success: false,
\* message: 'Failed to fetch from cloud.'}, and refreshData then leaves the
\* displayed transactions, todos and categories as they were.
C18_FailedFetchLeavesTheDataDisplayed ==
    [][ call'.op = "fetchData" /\ Truthy(gasUrl) /\ ~Succeeded(call') =>
            /\ call'.settled = "resolved"
            /\ call'.value = [success |-> FALSE, message |-> "Failed to fetch from cloud."]
            /\ UNCHANGED <<transactions, dataTodos, dataCategories>> ]_vars

\* a refresh has failed while a transaction was displayed
C18_Witness ==
    /\ call.op = "fetchData" /\ ~Succeeded(call)
    /\ refreshes = 0
    /\ Len(transactions) > 0

\* a view handler has called deleteTransaction or deleteTodo in this step and
\* the call has removed a stored record
DeleteCalled ==
    /\ task.name = "idle"
    /\ task'.name \in {"ExpenseView.handleDelete", "TodoView.handleDelete"}
    /\ task'.settled # "none"
    /\ call'.op \in {"deleteTransaction", "deleteTodo"}
    /\ \/ Len(StoredTransactions') < Len(StoredTransactions)
       \/ Len(StoredTodos') < Len(StoredTodos)

\* C16 (refuted): whenever a view handler's call of deleteTransaction or
\* deleteTodo removes a record, the user has confirmed the deletion before the
\* call, and when the user declines the store is left as it was.
C16_DeletionsAreConfirmed ==
    [][ /\ DeleteCalled => task'.flag
        /\ task'.name \in {"ExpenseView.handleDelete", "TodoView.handleDelete"}
              /\ task'.settled = "none" => UNCHANGED storeVars ]_vars

\* the todo dragged, as the list shows it
Dragged(list) == list[CHOOSE i \in 1..Len(list) : list[i].id = activeId[1]]

\* the stored todo with that id has targetDate D
StoredWithDate(id, D) ==
    \E t \in Range(fetchData(Env, "ok").value.data.todos) :
        t.id = id /\ Field(t, "targetDate") = D

\* C17 (refuted): when a drag of todo d has passed over the container of a
\* date D that is not d's stored targetDate and ends on that container,
\* handleDragEnd calls reorderTodos with the list in which d.targetDate = D,
\* and when that call succeeds the stored d has targetDate D.
C17_DragToADateIsPersisted ==
    [][ \A D \in DragDates :
          /\ activeId # Null
          /\ task'.name = "handleDragEnd" /\ task'.arg = "date-" \o D
          /\ \E i \in 1..Len(items) : items[i].id = activeId[1]
          /\ Field(Dragged(items), "targetDate") = D
          /\ \E t \in Range(fetchData(Env, "ok").value.data.todos) : t.id = activeId[1]
          /\ ~StoredWithDate(activeId[1], D)
          => /\ task'.settled # "none"
             /\ call'.op = "reorderTodos"
             /\ Field(Dragged(call'.arg), "targetDate") = D
             /\ Succeeded(call') => StoredWithDate(activeId[1], D)' ]_vars

\* the stored todos are those of old with the todo of that id, and no other,
\* marked completed
Ticked(old, new, id) ==
    /\ Len(new) = Len(old)
    /\ \A i \in 1..Len(old) :
          new[i] = IF old[i].id = id THEN [old[i] EXCEPT !.isCompleted = TRUE] ELSE old[i]

C21_LockIsReleased ==
    \A r \in Requests :
        /\ [](executions[r].pc = "idle" => lock # Some(r))
        /\ (executions[r].pc = "tryLock") ~> (executions[r].pc = "idle")

\* an execution has ended after writing a row and another one has acquired the
\* lock after it
C21_Witness ==
    /\ executions[1].pc = "idle"
    /\ executions[2].pc = "try" /\ lock = Some(2)
    /\ Len(doc.Todos) + Len(doc.Transactions) > 2

\* a syncLocalToCloud with a configured URL has completed in this step
Synced == call'.op = "syncLocalToCloud" /\ Truthy(gasUrl)

\* the requests of the call that failed: unanswered, unparsable, or answered
\* with success = false
FailedAdds(r, fates) ==
    {i \in 1..Len(fates.transactions) : fates.transactions[i] # "ok"}

\* C22 (refuted): syncLocalToCloud reports success = true only if the
\* REORDER_TODOS request that carries the local todos succeeded and every local
\* transaction was added, and successCount plus the failed adds is the number
\* of local transactions.
C22_SyncSuccessMeansAllSynced ==
    [][ Synced =>
          /\ call'.value.success =>
                /\ Len(getLocalData(Env).todos) > 0 =>
                      \E r \in {reorderTodos(afterGetLocalData(Env),
                                              getLocalData(Env).todos, call'.arg.todos)} :
                          r.settled = "resolved" /\ r.value.success
                /\ call'.value.message.successCount = Len(getLocalData(Env).transactions)
          /\ call'.value.message.successCount + Cardinality(FailedAdds(call', call'.arg))
                = Len(getLocalData(Env).transactions) ]_vars

\* every request of the sync was answered with success = true
AllSucceeded ==
    /\ \A i \in 1..Len(call'.arg.transactions) : call'.arg.transactions[i] = "ok"
    /\ \E r \in {reorderTodos(afterGetLocalData(Env), getLocalData(Env).todos,
                              call'.arg.todos)} :
           r.settled = "resolved" /\ r.value.success

\* C23 (refuted): after a syncLocalToCloud against an empty remote store in
\* which every request succeeded, a remote fetchData returns the transactions
\* and the todos a local fetchData returned before the sync, in the same
\* order, and the local blob holds what it held.
C23_SyncedStoreEqualsLocalStore ==
    [][ /\ Synced
        /\ Len(doc.Transactions) = 1 /\ Len(doc.Todos) = 1
        /\ AllSucceeded
        => \E before \in {getLocalData(Env)}, after \in {Fetched'} :
              /\ SameTransactions(after.transactions, before.transactions)
              /\ SameTodos(after.todos, before.todos)
              /\ getLocalData(Env') = before ]_vars

\* C24: syncLocalToCloud without a configured URL (none, or an empty one)
\* resolves to {success: false} with a message, issues no HTTP request and
\* leaves the local blob and the spreadsheet as they were.
C24_SyncWithoutUrlDoesNothing ==
    [][ call'.op = "syncLocalToCloud" /\ ~Truthy(gasUrl) =>
          /\ call'.settled = "resolved"
          /\ ~call'.value.success
          /\ "message" \in DOMAIN call'.value
          /\ call'.requests = <<>>
          /\ UNCHANGED <<gasUrl, localData, categoriesCache, doc>> ]_vars

\* the sync was called without a URL while the local blob held records
C24_Witness ==
    /\ call.op = "syncLocalToCloud"
    /\ ~Truthy(gasUrl)
    /\ localData # Null
    /\ Len(getLocalData(Env).transactions) > 0
    /\ Len(getLocalData(Env).todos) > 0

\* C30 (refuted): after saveCategories(C) has completed, in local and in
\* remote mode, the next successful fetchData returns categories equal to C.
C30_SavedCategoriesAreFetched ==
    (call.op = "saveCategories" /\ Succeeded(call)) => Fetched.categories = call.arg

\* toggleTodo, deleteTodo or deleteTransaction is called with an id that no
\* record of the store in use has
UnknownId ==
    \/ /\ call'.op = "toggleTodo"
       /\ \A i \in 1..Len(StoredTodos) : StoredId(StoredTodos[i]) # call'.arg.id
    \/ /\ call'.op = "deleteTodo"
       /\ \A i \in 1..Len(StoredTodos) : StoredId(StoredTodos[i]) # call'.arg
    \/ /\ call'.op = "deleteTransaction"
       /\ \A i \in 1..Len(StoredTransactions) : StoredId(StoredTransactions[i]) # call'.arg

\* C29: toggleTodo, deleteTodo and deleteTransaction with an id that is not in
\* the store change nothing and report success: in local mode they resolve
\* {success: true} and leave transactions, todos and categories as they were;
\* in remote mode they leave both sheets unchanged (and an answered request
\* reports success).
C29_UnknownIdIsANoOp ==
    [][ UnknownId =>
          IF Truthy(gasUrl)
          THEN /\ doc' = doc
               /\ call'.settled = "resolved" => Succeeded(call')
          ELSE /\ Succeeded(call')
               /\ getLocalData(Env') = getLocalData(Env) ]_vars

\* a deleteTodo has reported success while the store holds a todo and a
\* transaction, none of them with the id it was called with
C29_Witness ==
    /\ call.op = "deleteTodo" /\ Succeeded(call)
    /\ Len(StoredTodos) > 0 /\ Len(StoredTransactions) > 0
    /\ \A i \in 1..Len(StoredTodos) : StoredId(StoredTodos[i]) # call.arg
    /\ \A i \in 1..Len(StoredTransactions) : StoredId(StoredTransactions[i]) # call.arg

\* C25 (refuted): a busy flag that was set is always eventually cleared, on
\* every outcome of the request, a failed or rejected one included: here the
\* loading flag that ExpenseView.handleSubmit sets.
C25_BusyFlagIsCleared == form.loading ~> ~form.loading

\* handleDragEnd runs: the item with id a is dropped; task'.arg is over.id,
\* the empty string when it is dropped on nothing
DragEnds == task.name = "idle" /\ task'.name = "handleDragEnd"

\* C28: a drag reorder only permutes. When the item a is dropped on a different
\* item b, the list handleDragEnd passes to reorderTodos has the same ids as
\* the list shown, has a at the index b had, and its records are those shown
\* except that a's targetDate is b's; when the item is dropped on nothing or on
\* itself, no data-service call is made.
C28_DragOnlyPermutes ==
    [][ DragEnds =>
          LET a == activeId[1]
              b == task'.arg
              ia == CHOOSE i \in 1..Len(items) : items[i].id = a
          IN IF b # a /\ \E j \in 1..Len(items) : items[j].id = b
             THEN LET ib == CHOOSE j \in 1..Len(items) : items[j].id = b
                      l == call'.arg
                  IN /\ task'.settled # "none"
                     /\ call'.op = "reorderTodos"
                     /\ Len(l) = Len(items)
                     /\ {l[i].id : i \in 1..Len(l)} = {items[i].id : i \in 1..Len(items)}
                     /\ l[ib].id = a
                     /\ \A i \in 1..Len(l) : \A j \in 1..Len(items) :
                           l[i].id = items[j].id =>
                              /\ \A f \in TodoFields \ {"targetDate"} :
                                    Field(l[i], f) = Field(items[j], f)
                              /\ Field(l[i], "targetDate") =
                                    Field(items[IF l[i].id = a THEN ib ELSE j], "targetDate")
             ELSE (b = EmptyString \/ b = a) =>
                     /\ task'.settled = "none"
                     /\ UNCHANGED <<storeVars, items>> ]_vars

\* the first of three todos shown has been dropped on the last one, whose day
\* it did not have, and the list has been passed to reorderTodos
C28_Witness ==
    /\ task.name = "handleDragEnd" /\ task.settled # "none"
    /\ call.op = "reorderTodos" /\ call.arg = items
    /\ Len(items) = 3
    /\ dataTodos[1].id = items[3].id
    /\ task.arg = dataTodos[3].id
    /\ Field(dataTodos[1], "targetDate") # Field(dataTodos[3], "targetDate")
    /\ Field(items[3], "targetDate") = Field(dataTodos[3], "targetDate")

\* no handler is running, no refreshData is pending, no drag is under way,
\* and the last call of the data service succeeded
Quiet == task = Idle /\ refreshes = 0 /\ activeId = Null /\ Succeeded(call)

\* C27 (refuted): once no request is in flight, the data App holds and the
\* items TodoView shows equal the content of the store.
C27_DisplayConvergesToStore ==
    Quiet => /\ SameTodos(items, Fetched.todos)
             /\ SameTodos(dataTodos, Fetched.todos)
             /\ SameTransactions(transactions, Fetched.transactions)

\* C26 (refuted): for every interleaving of the TodoView handlers and of their
\* ADD_TODO and REORDER_TODOS requests in flight, the stored todos never hold
\* two records with the same id.
C26_TodoIdsAreUnique ==
    \A i, j \in 1..Len(StoredTodos) :
        StoredId(StoredTodos[i]) = StoredId(StoredTodos[j]) => i = j

====
